---- MODULE Spec2Model ----
(***************************************************************************)
(* A model of the CyberDrain "Check" browser extension's background        *)
(* service worker (src/src/scripts/background.ts), its detection-rules    *)
(* manager (src/src/modules/detection-rules-manager.ts) and its content    *)
(* script (src/src/scripts/content.ts).                                    *)
(*                                                                         *)
(* The specifications share the variables:                                 *)
(*   Spec       the per-tab verdict coordinator of an initialized worker   *)
(*   SpecLife   the lifecycle / retry supervisor (initialize, alarms,      *)
(*              message gate, handler error counter, worker restart)       *)
(*   SpecCache  the detection-rules cache (DetectionRulesManager)          *)
(*   SpecRogue  the rogue-app registry (RogueAppsManager)                  *)
(*   SpecStartup  the initialize() of both managers and their refreshes    *)
(*   SpecScan   one scan of a page, for every rule set within the bounds   *)
(*   SpecPage   the triggers of a page and the rate limit of its scans     *)
(*   SpecOut    the handlers with their badge, event and response outputs  *)
(*   SpecHeaders  the header cache with more tabs than it holds            *)
(*   SpecFlush  the batched log writes (SpecFlushFair: with fairness)      *)
(*   SpecMsg    messages of senders without a tab and of unknown type      *)
(*   SpecStale  notifications handled after the tab has moved on           *)
(*   SpecQueue  the promise chains of enqueue, task by task                *)
(* Each specification leaves the other groups of variables unchanged.      *)
(***************************************************************************)
EXTENDS Integers, Sequences, FiniteSets, Bags, TLC

\* ------------------------------------------------------------------------
\* Bounds of the model (not program constants)
\* ------------------------------------------------------------------------
MaxQueue == 1
\* message handlers in flight at once (waiting at the gate or in the switch)
MaxHandlers == 2
\* _doInitialize sequences in flight at once
MaxSeqs == 2
\* cap of the initializationRetries counter, which the code never caps
MaxRetryCount == 4
\* fetchDetectionRules calls, and updateRogueApps calls, in flight at once
MaxFetchers == 2
\* setupEventListeners calls of one worker that are told apart
MaxSetups == 2
\* tasks handed to enqueue for one tab id
MaxTasks == 3
\* the clock stops here
MaxNow == 80
\* longest primary_elements and secondary_elements lists of a rule set
MaxPrimary == 3
MaxSecondary == 1
\* the clock of the page stops here
MaxClock == 19200

\* ------------------------------------------------------------------------
\* Values
\* ------------------------------------------------------------------------
Tabs == {1}
\* tab ids whose promise chains are followed task by task
QueueTabs == {1, 2}

MsOrigin == "https://login.microsoftonline.com"
EvilOrigin == "https://evil.example"
PartnerOrigin == "https://partner.example"

MsLoginUrl == [origin |-> MsOrigin, path |-> "/common/oauth2/authorize"]
EvilUrl == [origin |-> EvilOrigin, path |-> "/login"]
PartnerUrl == [origin |-> PartnerOrigin, path |-> "/sso"]
Urls == {MsLoginUrl, EvilUrl, PartnerUrl}

\* chrome.tabs.get(tabId) of a closed tab rejects; safe() turns that into undefined
Closed == [origin |-> "", path |-> ""]

Verdicts ==
  {"not-evaluated", "trusted", "trusted-extra", "phishy", "ms-login-unknown",
   "rogue-app", "safe"}

\* existingData?.['verdict:' + tabId]?.verdict of an absent record
Undefined == "undefined"
\* session storage holds no "verdict:<tabId>" key
NoRecord == [verdict |-> Undefined, url |-> Closed]

\* tabDebounce has no entry for the tab / holds the id of a timer that fired
NoTimer == [status |-> "no-timer", url |-> Closed]
FiredTimer == [status |-> "fired", url |-> Closed]

\* identities of _doInitialize sequences
Seqs == 1..MaxSeqs

\* chrome.alarms holds no check:init-retry alarm
NoAlarm == [pending |-> FALSE, delay |-> 0]
\* no ping was answered yet
NoPing == [answered |-> FALSE, initialized |-> FALSE, fallbackMode |-> FALSE]

\* rule sets: the file shipped with the extension, the remote file, and a
\* remote answer that is JSON but no rule set
Bundled == "bundled-rules"
RemoteV1 == "remote-rules-v1"
Malformed == "not-a-rule-set"
NoRules == "null"
\* getDetectionRules was not called yet
NotAsked == "not-asked"

\* chrome.storage.local without detection_rules_cache
NoRulesRecord == [rules |-> NoRules, lastUpdate |-> 0, source |-> ""]
\* chrome.storage.local without rogue_apps_cache
NoAppsRecord == [apps |-> {}, lastUpdate |-> 0, present |-> FALSE]

\* no loadFromCache of the registry awaits its storage read
NoLoad == [pending |-> FALSE, rec |-> NoAppsRecord]

\* a fetchDetectionRules call that awaits its remote fetch
StartedFetch(caller) ==
  [pc |-> "remote", payload |-> NoRules, stamp |-> 0, remoteFailed |-> FALSE,
   caller |-> caller, overdue |-> FALSE]

\* how a remote fetch can end
RemoteOutcomes == {"ok", "wrong-shape", "network-error", "http-error", "bad-json"}
RogueOutcomes ==
  {"ok", "network-error", "aborted-after-10s", "http-error", "bad-json", "not-array",
   "null-element"}

\* the time that passes between two events, in hours
Delays == {13}

RogueId == "rogue-client-id"
CleanId == "clean-client-id"
ClientIds == {RogueId, CleanId}

VARIABLES
  \* ---- browser and per-tab state of CheckBackground
  tabUrl,          \* the browser's tabs: current URL of each tab, or Closed
  session,         \* chrome.storage.session: the record under verdict:<tabId>
  tabHeaders,      \* CheckBackground.tabHeaders: the ts of each cached tab id
  tabQueues,       \* CheckBackground.tabQueues: tab ids with a map entry
  chain,           \* the promise chain built by enqueue: tasks not yet finished
  tabDebounce,     \* CheckBackground.tabDebounce: the timer of each tab
  run,             \* position of the running handleTabUpdate of each chain
  currentLoad,     \* history: the record was written during the current page load
  lastDecision,    \* history: what the last finished URL evaluation logged
  \* ---- lifecycle state of CheckBackground
  isInitialized,
  listenersReady,            \* _listenersReady
  eventListeners,            \* history: setupEventListeners calls, onUpdated listeners
  coreListeners,             \* the chrome.alarms.onAlarm listener is registered
  initializationPromise,     \* 0 for null, else the sequence whose promise it is
  running,                   \* the _doInitialize sequences in flight
  initializationRetries,
  retryScheduled,            \* _retryScheduled
  errorCount,
  atGate,                    \* handlers awaiting initialize(), per sequence
  inSwitch,                  \* handlers past the gate, not yet finished
  alarm,                     \* chrome.alarms: the check:init-retry alarm
  lastPing,                  \* the response to the last ping
  epoch,                     \* history: flips when the worker is restarted
  failsInRow,                \* history: failed sequences since the last success
  alarmsThisRun,             \* history: retry alarms created since then
  \* ---- RogueAppsManager
  rogueApps,                 \* the keys of the rogueApps map
  rogueInitialized,
  rogueLastUpdate,
  persistedApps,             \* chrome.storage.local: rogue_apps_cache
  rogueFetching,             \* updateRogueApps calls awaiting their fetch
  rogueResult,               \* how the last updateRogueApps ended
  rogueLoad,                 \* the record a pending loadFromCache has read
  \* ---- DetectionRulesManager
  cachedRules,
  rulesLastUpdate,
  rulesInitialized,
  persistedRules,            \* chrome.storage.local: detection_rules_cache
  fetcher,                   \* the fetchDetectionRules calls in flight
  getResult,                 \* what the last getDetectionRules returned
  updateResult,              \* how the last updateDetectionRules ended
  remoteEverOk,              \* history: a remote fetch was taken as good
  bootCache,                 \* history: the persisted record found by initialize
  now,                       \* Date.now(), in hours
  \* ---- the content script of one page (content.ts)
  pageUrl,                   \* window.location.href
  pageRules,                 \* detectionRules, as loadDetectionRules delivers them
  lastDetectionResult,
  blocked,                   \* blockCurrentPage has sent the page to blocked.html
  scanError,                 \* the catch of runProtection has logged an error
  scanCount,
  lastScanTime,
  pageClock,                 \* Date.now() in the page, in milliseconds
  scanStarts,                \* history: when the scans of this page started
  lastTrigger,               \* history: what the last trigger of runProtection did
  sent,                      \* types of the messages the page sent to the worker
  \* ---- outputs of the handlers of CheckBackground
  observed,        \* the outputs below are followed in this behaviour
  badge,           \* chrome.action: badge text and background colour of each tab
  lastEvent,       \* type of the last event handed to sendEvent
  lastReply,       \* what the sender of the last message handled was answered
  injected,        \* URL of the last notification handleTabUpdate injected for
  \* ---- the promise chains of enqueue, task by task
  tasks,           \* per tab id: the tasks handed to enqueue, in enqueue order
  \* ---- the header cache's clock
  msNow,           \* Date.now() in the worker, in milliseconds
  headerEvents,    \* history: header and removal events handled so far
  \* ---- batched log writes of CheckBackground
  pendingLocal,    \* the in-memory batch: accessLogs and securityEvents
  flushScheduled,
  storedLogs,      \* chrome.storage.local: accessLogs and securityEvents
  flushReads,      \* _doFlush runs awaiting their storage.local.get
  flushWrites,     \* payloads of the _doFlush runs awaiting their storage.local.set
  nextEntry        \* history: sequence number of the next log entry

verdictVars ==
  <<tabUrl, session, tabHeaders, tabQueues, chain, tabDebounce, run,
    currentLoad, lastDecision>>
lifeVars ==
  <<isInitialized, listenersReady, eventListeners, coreListeners, initializationPromise, running,
    initializationRetries, retryScheduled, errorCount, atGate, inSwitch, alarm,
    lastPing, epoch, failsInRow, alarmsThisRun>>
rogueVars ==
  <<rogueApps, rogueInitialized, rogueLastUpdate, persistedApps, rogueFetching,
    rogueResult, rogueLoad>>
rulesVars ==
  <<cachedRules, rulesLastUpdate, rulesInitialized, persistedRules, fetcher,
    getResult, updateResult, remoteEverOk, bootCache>>
cacheVars == <<rogueVars, rulesVars, now>>
pageVars ==
  <<pageUrl, pageRules, lastDetectionResult, blocked, scanError, scanCount,
    lastScanTime, pageClock, scanStarts, lastTrigger, sent>>
outVars == <<observed, badge, lastEvent, lastReply, injected>>
hdrVars == <<msNow, headerEvents>>
logVars ==
  <<pendingLocal, flushScheduled, storedLogs, flushReads, flushWrites, nextEntry>>
queueVars == <<tasks>>
vars ==
  <<verdictVars, lifeVars, cacheVars, pageVars, outVars, hdrVars, logVars, queueVars>>

\* DetectionRulesManager.updateInterval, 24 hours
updateInterval == 24
\* RogueAppsManager.updateInterval and defaultConfig.update_interval, 12 hours
rogueUpdateInterval == 12
\* RogueAppsManager defaultConfig.cache_duration, 24 hours
cacheDuration == 24

\* the clock at the start
StartNow == updateInterval + cacheDuration + 1

\* the list served by the remote registry
NewRogueId == "new-rogue-client-id"
RemoteApps == {RogueId, NewRogueId}

\* both managers as constructed
CachesConstructed ==
  /\ rogueApps = {}
  /\ rogueInitialized = FALSE
  /\ rogueLastUpdate = 0
  /\ rogueFetching = 0
  /\ rogueResult = "none"
  /\ rogueLoad = NoLoad
  /\ cachedRules = NoRules
  /\ rulesLastUpdate = 0
  /\ rulesInitialized = FALSE
  /\ fetcher = EmptyBag
  /\ getResult = NotAsked
  /\ updateResult = "none"
  /\ remoteEverOk = FALSE
  /\ bootCache = "none"

(* ------------------------------------------------------------------ *)
(* The content script (content.ts): the scan of one page.  A regular  *)
(* expression is kept as what it does: whether it compiles, and what  *)
(* it matches.                                                        *)
(* ------------------------------------------------------------------ *)

MAX_SCANS == 5
SCAN_COOLDOWN == 1200

\* patterns of rule elements, tested against the source of the page
HitPattern == [src |-> "<form[^>]+login", valid |-> TRUE, hits |-> TRUE]
MissPattern == [src |-> "aadcdn", valid |-> TRUE, hits |-> FALSE]
BadPattern == [src |-> "login(", valid |-> FALSE, hits |-> FALSE]

\* rule elements: {id, pattern, weight}
LoginForm == [id |-> "login-form", pattern |-> HitPattern, weight |-> 3]
MsLogo == [id |-> "ms-logo", pattern |-> HitPattern, weight |-> 2]
CdnLink == [id |-> "cdn-link", pattern |-> MissPattern, weight |-> 3]
Broken == [id |-> "broken", pattern |-> BadPattern, weight |-> 2]
Footer == [id |-> "footer", pattern |-> HitPattern, weight |-> 1]
PrimaryCatalogue == {LoginForm, MsLogo, CdnLink, Broken}
SecondaryCatalogue == {Footer, MsLogo, Broken}

\* the sequences over S of length at most n
SeqsUpTo(S, n) == UNION {[1..k -> S] : k \in 0..n}

\* detection_thresholds
Thresholds ==
  [minimum_primary_elements : {1, 2}, minimum_total_weight : {2, 5},
   minimum_elements_overall : {2, 3}]

\* m365_detection_requirements of the rule sets a page can be given
RuleSets ==
  [primary_elements : SeqsUpTo(PrimaryCatalogue, MaxPrimary),
   secondary_elements : SeqsUpTo(SecondaryCatalogue, MaxSecondary),
   detection_thresholds : Thresholds]

\* pages: two on the trusted origin, two on another
MsOtherUrl == [origin |-> MsOrigin, path |-> "/kmsi?ctx=1"]
EvilQueryUrl == [origin |-> EvilOrigin, path |-> "/?u=https://login.microsoftonline.com"]
ScanUrls == {MsLoginUrl, MsOtherUrl, EvilUrl, EvilQueryUrl}

\* window.location.href of a page
Href(url) == url.origin \o url.path

\* trusted_login_patterns, each with the strings it matches among the
\* origins and addresses of the pages; the first one does not compile, the
\* last one is not anchored
TrustedLoginPatterns ==
  << [src |-> "^https://login.(", valid |-> FALSE, matches |-> {}],
     [src |-> "^https://login.microsoftonline.com$", valid |-> TRUE,
      matches |-> {MsOrigin}],
     [src |-> "login.microsoftonline.com", valid |-> TRUE,
      matches |-> {MsOrigin, Href(MsLoginUrl), Href(MsOtherUrl), Href(EvilQueryUrl)}] >>

\* no scan has produced a result
NoResult ==
  [produced |-> FALSE, isPhishing |-> FALSE, confidence |-> [num |-> 0, den |-> 1],
   severity |-> Undefined, detectedElements |-> <<>>, totalWeight |-> 0, primaryElementsCount |-> 0,
   secondaryElementsCount |-> 0]

\* a rule set of a page without sign-in markup
QuietRules ==
  [primary_elements |-> <<CdnLink>>, secondary_elements |-> <<Footer>>,
   detection_thresholds |->
     [minimum_primary_elements |-> 2, minimum_total_weight |-> 5,
      minimum_elements_overall |-> 3]]

\* the first moment of the page
StartClock == 10 * SCAN_COOLDOWN

\* the content script as loaded, before its first runProtection
ScriptLoaded ==
  /\ lastDetectionResult = NoResult
  /\ blocked = FALSE
  /\ scanError = FALSE
  /\ scanCount = 0
  /\ lastScanTime = 0
  /\ pageClock = StartClock
  /\ scanStarts = <<>>
  /\ lastTrigger = "none"
  /\ sent = {}

\* the worker's millisecond clock when the behaviours begin
StartMs == 1000
\* the header cache's clock stands still outside the header cache's own
\* specification
HeaderClockIdle ==
  /\ msNow = StartMs
  /\ headerEvents = 0

\* pendingLocal = { accessLogs: [], securityEvents: [] }
NoLogs == [accessLogs |-> <<>>, securityEvents |-> <<>>]
\* no log entry was ever accepted or stored, no flush is scheduled
\* nothing was handed to enqueue yet
QueuesIdle == tasks = [q \in QueueTabs |-> <<>>]
LogsIdle ==
  /\ pendingLocal = NoLogs
  /\ flushScheduled = FALSE
  /\ storedLogs = NoLogs
  /\ flushReads = 0
  /\ flushWrites = EmptyBag
  /\ nextEntry = 1

\* a page that waits for its first trigger, for the other specifications
PageLoaded ==
  /\ pageUrl = EvilUrl
  /\ pageRules = QuietRules
  /\ ScriptLoaded

\* ------------------------------------------------------------------------
\* Pure helpers of CheckBackground.  setBadge (chrome.action) and sendEvent
\* (the reporting server) are outputs the worker never reads back; they are
\* followed only in the behaviours that set observed.
\* ------------------------------------------------------------------------

\* urlOrigin: new URL(u).origin.toLowerCase()
urlOrigin(u) == u.origin

\* the default trusted origins of verdictForUrl (policy.trustedOrigins is unset)
TrustedOrigins ==
  {"https://login.microsoftonline.com", "https://login.microsoft.com",
   "https://account.microsoft.com"}

\* this.extraWhitelist after refreshPolicy: origins of policy.ExtraWhitelist
extraWhitelist == {PartnerOrigin}

verdictForUrl(raw) ==
  IF urlOrigin(raw) \in TrustedOrigins THEN "trusted"
  ELSE IF urlOrigin(raw) \in extraWhitelist THEN "trusted-extra"
  ELSE "not-evaluated"

\* shouldUpdateVerdict without the guard for specific verdicts: the URL-based
\* verdict is applied whenever it differs from the stored one
shouldUpdateVerdict_WheneverDifferent(existingVerdict, urlBasedVerdict) ==
  existingVerdict # urlBasedVerdict

\* shouldUpdateVerdict that applies the URL-based verdict only to a tab with
\* no stored verdict
shouldUpdateVerdict_OnlyWhenAbsent(existingVerdict, urlBasedVerdict) ==
  existingVerdict = Undefined

\* handleTabUpdate: "Don't override specific verdicts with generic URL-based verdicts"
shouldUpdateVerdict(existingVerdict, urlBasedVerdict) ==
  \/ existingVerdict = Undefined
  \/ existingVerdict = "not-evaluated"
  \/ (existingVerdict = "trusted" /\ urlBasedVerdict # "trusted")

\* RogueAppsManager.checkClientId: null unless initialized, else a hit or a miss
checkClientId_AnyId(clientId) == IF ~rogueInitialized THEN "null" ELSE "rogue"
checkClientId(clientId) ==
  IF ~rogueInitialized THEN "null"
  ELSE IF clientId \in rogueApps THEN "rogue"
  ELSE "not-rogue"

\* the verdict of a stored record, as handleTabUpdate reads it
StoredVerdict(t) == session[t].verdict

\* verdicts the URL evaluation must not regress (spec 8, verdict monotonicity)
Sticky == {"phishy", "rogue-app", "ms-login-unknown"}

\* the payload of one chrome.tabs.onUpdated notification: changeInfo.status
\* and the tab.url snapshot the listener was called with
Task(status, url) == [status |-> status, url |-> url]

\* ------------------------------------------------------------------------
\* The outputs of the handlers: the badge, the events and the answers.  A
\* behaviour either follows them (observed) or leaves them as they are.
\* ------------------------------------------------------------------------

\* safe(promise): the value of a promise that is fulfilled, undefined for
\* one that is rejected
safe_Rethrows(ok) == IF ok THEN "fulfilled" ELSE "thrown"
safe(ok) == IF ok THEN "fulfilled" ELSE "undefined"

\* the map of setBadge; a verdict without an entry gets the entry of
\* not-evaluated
BadgeMap(verdict) ==
  CASE verdict = "trusted" -> [text |-> "MS", color |-> "#0a5"]
    [] verdict = "trusted-extra" -> [text |-> "OK", color |-> "#0a5"]
    [] verdict = "phishy" -> [text |-> "!", color |-> "#d33"]
    [] verdict = "ms-login-unknown" -> [text |-> "?", color |-> "#f90"]
    [] verdict = "rogue-app" -> [text |-> "warning-sign", color |-> "#f00"]
    [] OTHER -> [text |-> "", color |-> "#000"]

\* the badge of a tab for which nothing was set
NoBadge == [text |-> "", color |-> ""]

\* setBadge: the text is set, and the colour when the text is not empty
setBadge(t, verdict) ==
  badge' =
    IF observed
    THEN [badge EXCEPT ![t] =
            [text |-> BadgeMap(verdict).text,
             color |-> IF BadgeMap(verdict).text # "" THEN BadgeMap(verdict).color
                       ELSE @.color]]
    ELSE badge

\* queueMicrotask(() => this.sendEvent({type, ...}))
NoEvent == "none"
sendEvent(type) == lastEvent' = IF observed THEN type ELSE lastEvent

\* sendResponse
NoReply == [type |-> "none", success |-> FALSE, data |-> "null", responses |-> 0]
\* the response a handler passes to sendResponse, which is once(sendResponseRaw)
Reply(type, success, data) ==
  [type |-> type, success |-> success, data |-> data, responses |-> 1]
\* a handler that returns without a call of sendResponse
NoResponse(type) ==
  [type |-> type, success |-> FALSE, data |-> "null", responses |-> 0]
sendResponse(reply) == lastReply' = IF observed THEN reply ELSE lastReply

\* the outputs when the worker starts
OutputsClear ==
  /\ badge = [t \in Tabs |-> NoBadge]
  /\ lastEvent = NoEvent
  /\ lastReply = NoReply
  /\ injected = [t \in Tabs |-> Closed]

\* setupEventListeners: the calls made (MaxSetups stands for that many or
\* more) and the listeners chrome.tabs.onUpdated holds; a call registers
\* the listeners unless _listenersReady is set
NoListeners == [calls |-> 0, registered |-> 0]
RegisteredOnce == [calls |-> 1, registered |-> 1]
setupEventListeners_Unguarded(ready, listeners) ==
  [calls |-> IF listeners.calls < MaxSetups THEN listeners.calls + 1 ELSE MaxSetups,
   registered |-> listeners.registered + 1]
setupEventListeners(ready, listeners) ==
  [calls |-> IF listeners.calls < MaxSetups THEN listeners.calls + 1 ELSE MaxSetups,
   registered |-> IF ready THEN listeners.registered ELSE listeners.registered + 1]

maxInitializationRetries == 3
maxErrors == 10


\* initialize(), called when the three fields have the given values:
\* return when initialized, return the pending promise or a resolved one
\* when a sequence or a retry is pending, else start _doInitialize
initialize(initialized, promise, scheduled) ==
  IF initialized \/ promise # 0 \/ scheduled
  THEN /\ initializationPromise' = promise
       /\ running' = running
  ELSE /\ running # Seqs
       /\ LET k == CHOOSE x \in Seqs : x \notin running
          IN /\ initializationPromise' = k
             /\ running' = running \cup {k}

\* the test of the catch block of handleMessage, made on the incremented count
TooManyErrors_AtThreshold(count) == count >= maxErrors
TooManyErrors(count) == count > maxErrors

\* the catch block of handleMessage
CatchBlock ==
  IF TooManyErrors(errorCount + 1)
  THEN /\ errorCount' = 0
       /\ isInitialized' = FALSE
       /\ initialize(FALSE, 0, retryScheduled)
  ELSE /\ errorCount' = errorCount + 1
       /\ UNCHANGED <<isInitialized, initializationPromise, running>>

\* ------------------------------------------------------------------------
\* chrome.storage.session.set through safe(): a write that the store rejects
\* leaves the record as it was and the caller continues.
\* ------------------------------------------------------------------------
SessionSet(t, rec, ok, load) ==
  IF ok
  THEN /\ session' = [session EXCEPT ![t] = rec]
       /\ currentLoad' = [currentLoad EXCEPT ![t] = load]
  ELSE UNCHANGED <<session, currentLoad>>

\* ------------------------------------------------------------------------
\* Browser events
\* ------------------------------------------------------------------------

\* The tab navigates to another URL: a new page load begins.
Navigate(t, u) ==
  /\ tabUrl[t] \notin {Closed, u}
  /\ tabUrl' = [tabUrl EXCEPT ![t] = u]
  /\ currentLoad' = [currentLoad EXCEPT ![t] = FALSE]
  /\ UNCHANGED <<session, tabHeaders, tabQueues, chain, tabDebounce, run, lastDecision>>
  /\ UNCHANGED <<lifeVars, cacheVars, pageVars, outVars, hdrVars, logVars, queueVars>>

\* debouncePerTab(tabId, fn, 150): clear the previous timer, arm a new one
debouncePerTab(t, task) ==
  tabDebounce' = [tabDebounce EXCEPT ![t] = task]

\* chrome.tabs.onUpdated listener: debounce, then enqueue handleTabUpdate
OnUpdated(t, status) ==
  /\ listenersReady
  /\ tabUrl[t] # Closed
  /\ debouncePerTab(t, Task(status, tabUrl[t]))
  /\ UNCHANGED <<tabUrl, session, tabHeaders, tabQueues, chain, run, currentLoad, lastDecision>>
  /\ UNCHANGED <<lifeVars, cacheVars, pageVars, outVars, hdrVars, logVars, queueVars>>

\* enqueue(tabId, task): chain the task behind the tab's previous promise
enqueue(t, task) ==
  /\ chain' = [chain EXCEPT ![t] = Append(chain[t], task)]
  /\ tabQueues' = tabQueues \cup {t}

\* the debounce timer fires after 150ms: the callback enqueues the task
DebounceFire(t) ==
  /\ tabDebounce[t] \notin {NoTimer, FiredTimer}
  /\ Len(chain[t]) < MaxQueue
  /\ enqueue(t, tabDebounce[t])
  /\ tabDebounce' = [tabDebounce EXCEPT ![t] = FiredTimer]
  /\ UNCHANGED <<tabUrl, session, tabHeaders, run, currentLoad, lastDecision>>
  /\ UNCHANGED <<lifeVars, cacheVars, pageVars, outVars, hdrVars, logVars, queueVars>>

\* The header cache, tabHeaders = new Map(): for each cached tab id the ts
\* of its entry (the headers themselves are not followed).
HEADER_CACHE_TTL == 300000
MAX_HEADER_CACHE_ENTRIES == 100
NoHeaders == [x \in {} |-> 0]
\* tabHeaders.set(t, {headers, ts})
HeadersSet(cache, t, ts) ==
  [x \in (DOMAIN cache) \cup {t} |-> IF x = t THEN ts ELSE cache[x]]
\* tabHeaders.delete(t)
HeadersDelete(cache, t) == [x \in (DOMAIN cache) \ {t} |-> cache[x]]

\* tabHeaders.size >= MAX_HEADER_CACHE_ENTRIES
CacheFull_Above(cache) == Cardinality(DOMAIN cache) > MAX_HEADER_CACHE_ENTRIES
CacheFull(cache) == Cardinality(DOMAIN cache) >= MAX_HEADER_CACHE_ENTRIES

\* The loop over the map keeps the entry with the smallest ts; of several
\* entries with that ts it keeps the first in the map's insertion order,
\* which is not followed here: any of them can be the one.
OldestTabs(cache) ==
  {o \in DOMAIN cache : \A x \in DOMAIN cache : cache[o] <= cache[x]}

\* the try block of the onHeadersReceived listener, for a main-frame
\* response of tab id t that carries headers
HeadersReceived(t) ==
  IF CacheFull(tabHeaders)
  THEN \E o \in OldestTabs(tabHeaders) :
         tabHeaders' = HeadersSet(HeadersDelete(tabHeaders, o), t, msNow)
  ELSE tabHeaders' = HeadersSet(tabHeaders, t, msNow)

\* chrome.webRequest.onHeadersReceived listener (main frame of tab t)
OnHeadersReceived(t) ==
  /\ listenersReady
  /\ tabUrl[t] # Closed
  /\ HeadersReceived(t)
  /\ UNCHANGED <<tabUrl, session, tabQueues, chain, tabDebounce, run, currentLoad, lastDecision>>
  /\ UNCHANGED <<lifeVars, cacheVars, pageVars, outVars, hdrVars, logVars, queueVars>>

\* chrome.tabs.onRemoved listener
OnRemoved(t) ==
  /\ tabHeaders' = HeadersDelete(tabHeaders, t)
  /\ tabQueues' = tabQueues \ {t}
  /\ tabDebounce' = [tabDebounce EXCEPT ![t] = NoTimer]
  /\ UNCHANGED session

\* The tab is closed and, when the listeners are registered, onRemoved runs.
TabRemoved(t) ==
  /\ tabUrl[t] # Closed
  /\ tabUrl' = [tabUrl EXCEPT ![t] = Closed]
  /\ IF listenersReady THEN OnRemoved(t)
     ELSE UNCHANGED <<tabHeaders, tabQueues, tabDebounce, session>>
  /\ UNCHANGED <<chain, run, currentLoad, lastDecision>>
  /\ UNCHANGED <<lifeVars, cacheVars, pageVars, outVars, hdrVars, logVars, queueVars>>

\* ------------------------------------------------------------------------
\* handleTabUpdate, the task at the head of a tab's chain
\* ------------------------------------------------------------------------
Idle == [pc |-> "idle", existing |-> Undefined]

\* the stale-payload check: chrome.tabs.get found no tab, or its URL is not
\* the one of the notification
Stale_ClosedOnly(latest, task) == latest = Closed
Stale(latest, task) == latest = Closed \/ latest # task.url

\* shouldInjectContentScript: any URL but the browser's own pages
shouldInjectContentScript(url) == url.origin \in {MsOrigin, EvilOrigin, PartnerOrigin}

\* the rest of handleTabUpdate after the evaluation block, for a
\* notification that carries changeInfo.url: the browser reports the new
\* URL of a navigation together with status loading
injectContentScript(t, task) ==
  injected' = IF observed /\ task.status = "loading"
                          /\ shouldInjectContentScript(task.url)
              THEN [injected EXCEPT ![t] = task.url]
              ELSE injected

Finish(t) ==
  /\ run' = [run EXCEPT ![t] = Idle]

\* Up to the second await: the isInitialized guard, chrome.tabs.get and the
\* stale-payload check, verdictForUrl, and the read of the stored verdict.
HTUStart(t) ==
  /\ chain[t] # <<>>
  /\ run[t].pc = "idle"
  /\ LET task == Head(chain[t])
         latest == tabUrl[t]
     IN IF ~isInitialized \/ Stale(latest, task)
        THEN /\ chain' = [chain EXCEPT ![t] = Tail(chain[t])]
             /\ UNCHANGED <<run, injected>>
        ELSE IF task.status # "complete"
        THEN /\ chain' = [chain EXCEPT ![t] = Tail(chain[t])]
             /\ injectContentScript(t, task)
             /\ UNCHANGED run
        ELSE /\ run' = [run EXCEPT ![t] =
                          [pc |-> "sessionGet", existing |-> StoredVerdict(t)]]
             /\ UNCHANGED <<chain, injected>>
  /\ UNCHANGED <<tabUrl, session, tabHeaders, tabQueues, tabDebounce, currentLoad, lastDecision>>
  /\ UNCHANGED <<observed, badge, lastEvent, lastReply>>
  /\ UNCHANGED <<lifeVars, cacheVars, pageVars, hdrVars, logVars, queueVars>>

\* After the read: decide and write through safe().
HTUWrite(t, ok) ==
  /\ chain[t] # <<>>
  /\ run[t].pc = "sessionGet"
  /\ LET task == Head(chain[t])
         existingVerdict == run[t].existing
         urlBasedVerdict == verdictForUrl(task.url)
     IN IF shouldUpdateVerdict(existingVerdict, urlBasedVerdict)
        THEN /\ SessionSet(t, [verdict |-> urlBasedVerdict, url |-> task.url], ok,
                           task.url = tabUrl[t])
             /\ lastDecision' = [lastDecision EXCEPT ![t] = "updating"]
             /\ IF safe(ok) = "thrown"
                THEN UNCHANGED <<badge, lastEvent>>
                ELSE /\ setBadge(t, urlBasedVerdict)
                     /\ IF urlBasedVerdict = "trusted"
                        THEN sendEvent("trusted-login-page")
                        ELSE UNCHANGED lastEvent
        ELSE /\ ok
             /\ lastDecision' = [lastDecision EXCEPT ![t] = "keeping"]
             /\ setBadge(t, existingVerdict)
             /\ IF urlBasedVerdict = "trusted"
                THEN sendEvent("trusted-login-page")
                ELSE UNCHANGED lastEvent
             /\ UNCHANGED <<session, currentLoad>>
  /\ chain' = [chain EXCEPT ![t] = Tail(chain[t])]
  /\ Finish(t)
  /\ UNCHANGED <<tabUrl, tabHeaders, tabQueues, tabDebounce, observed, injected, lastReply>>
  /\ UNCHANGED <<lifeVars, cacheVars, pageVars, hdrVars, logVars, queueVars>>

\* ------------------------------------------------------------------------
\* handleMessage: the verdict messages of a content script in tab t.
\* sender.tab.url is the tab's URL when the message is delivered.
\* ------------------------------------------------------------------------
\* a case that writes the verdict v, sets the badge for key, answers and
\* hands an event to sendEvent; an exception of the write would reach the
\* catch block of handleMessage
FlagWrite(t, type, v, key, event, ok) ==
  /\ tabUrl[t] # Closed
  /\ IF safe(ok) = "thrown"
     THEN /\ CatchBlock
          /\ sendResponse(Reply(type, FALSE, "null"))
          /\ UNCHANGED <<session, currentLoad, badge, lastEvent>>
          /\ UNCHANGED <<listenersReady, eventListeners, coreListeners, initializationRetries,
                         retryScheduled, atGate, inSwitch, alarm, lastPing, epoch,
                         failsInRow, alarmsThisRun>>
     ELSE /\ SessionSet(t, [verdict |-> v, url |-> tabUrl[t]], ok, TRUE)
          /\ setBadge(t, key)
          /\ sendResponse(Reply(type, TRUE, "null"))
          /\ IF event = NoEvent THEN UNCHANGED lastEvent ELSE sendEvent(event)
          /\ UNCHANGED lifeVars
  /\ UNCHANGED <<tabUrl, tabHeaders, tabQueues, chain, tabDebounce, run, lastDecision>>
  /\ UNCHANGED <<cacheVars, pageVars, hdrVars, logVars, queueVars, observed, injected>>

\* case 'FLAG_PHISHY'
FlagPhishy(t, ok) ==
  FlagWrite(t, "FLAG_PHISHY", "phishy", "phishy", "phishy-detected", ok)

\* case 'FLAG_TRUSTED_BY_REFERRER' (policy.AlertWhenLogon is not set)
FlagTrustedByReferrer(t, ok) ==
  FlagWrite(t, "FLAG_TRUSTED_BY_REFERRER", "trusted", "trusted", NoEvent, ok)

\* case 'FLAG_MS_LOGIN_ON_UNKNOWN_DOMAIN'
FlagMsLoginOnUnknownDomain(t, ok) ==
  FlagWrite(t, "FLAG_MS_LOGIN_ON_UNKNOWN_DOMAIN", "ms-login-unknown",
            "ms-login-unknown", "ms-login-unknown-domain", ok)

\* case 'FLAG_ROGUE_APP'
FlagRogueApp(t, ok) ==
  FlagWrite(t, "FLAG_ROGUE_APP", "rogue-app", "rogue-app", "rogue-app-detected", ok)

\* case 'UPDATE_VERDICT_TO_SAFE': the badge is set for not-evaluated
UpdateVerdictToSafe(t, ok) ==
  FlagWrite(t, "UPDATE_VERDICT_TO_SAFE", "safe", "not-evaluated", NoEvent, ok)

\* case 'CHECK_ROGUE_APP': the answer is sent first; a registry hit forces
\* rogue-app, anything else writes nothing.  An exception of the write is
\* caught by the case itself, whose second answer is dropped.
CheckRogueApp(t, clientId, ok) ==
  /\ tabUrl[t] # Closed
  /\ sendResponse(Reply("CHECK_ROGUE_APP", TRUE, checkClientId(clientId)))
  /\ IF checkClientId(clientId) = "rogue" /\ safe(ok) # "thrown"
     THEN /\ SessionSet(t, [verdict |-> "rogue-app", url |-> tabUrl[t]], ok, TRUE)
          /\ setBadge(t, "rogue-app")
          /\ sendEvent("rogue-app-detected")
     ELSE UNCHANGED <<session, currentLoad, badge, lastEvent>>
  /\ UNCHANGED <<tabUrl, tabHeaders, tabQueues, chain, tabDebounce, run, lastDecision>>
  /\ UNCHANGED <<lifeVars, cacheVars, pageVars, hdrVars, logVars, queueVars, observed, injected>>

\* ------------------------------------------------------------------------
\* Spec: the verdict coordinator of a worker whose initialization succeeded
\* ------------------------------------------------------------------------
\* an initialized worker: _doInitialize has succeeded, both caches are
\* loaded, nothing is in flight
WorkerInitialized ==
  /\ isInitialized = TRUE
  /\ listenersReady = TRUE
  /\ eventListeners = RegisteredOnce
  /\ coreListeners = TRUE
  /\ initializationPromise = 1
  /\ running = {}
  /\ initializationRetries = 0
  /\ retryScheduled = FALSE
  /\ errorCount = 0
  /\ atGate = [k \in Seqs |-> 0]
  /\ inSwitch = 0
  /\ alarm = NoAlarm
  /\ lastPing = NoPing
  /\ epoch = 0
  /\ failsInRow = 0
  /\ alarmsThisRun = 0
  /\ rogueApps = {RogueId}
  /\ rogueInitialized = TRUE
  /\ rogueLastUpdate = StartNow
  /\ persistedApps = [apps |-> {RogueId}, lastUpdate |-> StartNow, present |-> TRUE]
  /\ rogueFetching = 0
  /\ rogueResult = "success"
  /\ rogueLoad = NoLoad
  /\ cachedRules = Bundled
  /\ rulesLastUpdate = StartNow
  /\ rulesInitialized = TRUE
  /\ persistedRules = [rules |-> Bundled, lastUpdate |-> StartNow, source |-> "remoteUrl"]
  /\ fetcher = EmptyBag
  /\ getResult = NotAsked
  /\ updateResult = "ok"
  /\ remoteEverOk = FALSE
  /\ bootCache = "absent"
  /\ now = StartNow

Init ==
  /\ tabUrl \in [Tabs -> Urls]
  /\ session = [t \in Tabs |-> NoRecord]
  /\ tabHeaders = NoHeaders
  /\ tabQueues = {}
  /\ chain = [t \in Tabs |-> <<>>]
  /\ tabDebounce = [t \in Tabs |-> NoTimer]
  /\ run = [t \in Tabs |-> Idle]
  /\ currentLoad = [t \in Tabs |-> FALSE]
  /\ lastDecision = [t \in Tabs |-> "none"]
  /\ WorkerInitialized
  /\ PageLoaded
  /\ observed = FALSE
  /\ OutputsClear
  /\ HeaderClockIdle
  /\ QueuesIdle
  /\ LogsIdle

Next ==
  \E t \in Tabs :
    \/ \E u \in Urls : Navigate(t, u)
    \/ \E status \in {"loading", "complete"} : OnUpdated(t, status)
    \/ DebounceFire(t)
    \/ OnHeadersReceived(t)
    \/ TabRemoved(t)
    \/ HTUStart(t)
    \/ \E ok \in BOOLEAN : HTUWrite(t, ok)
    \/ \E ok \in BOOLEAN : FlagPhishy(t, ok)
    \/ \E ok \in BOOLEAN : FlagTrustedByReferrer(t, ok)
    \/ \E ok \in BOOLEAN : FlagMsLoginOnUnknownDomain(t, ok)
    \/ \E ok \in BOOLEAN : FlagRogueApp(t, ok)
    \/ \E ok \in BOOLEAN : UpdateVerdictToSafe(t, ok)
    \/ \E ok \in BOOLEAN, c \in ClientIds : CheckRogueApp(t, c, ok)

Spec == Init /\ [][Next]_vars

\* ------------------------------------------------------------------------
\* SpecOut: the handlers with their outputs.  The tab stays on its page.
\* The worker is initialized with a loaded registry, or with an empty one
\* (rogue_apps_detection.enabled is false, or nothing was ever fetched), or
\* its initialization has failed for the last time and the handlers run
\* without it.
\* ------------------------------------------------------------------------
RegistryLoaded ==
  /\ rogueApps = {RogueId}
  /\ rogueInitialized = TRUE
  /\ rogueLastUpdate = StartNow
  /\ persistedApps = [apps |-> {RogueId}, lastUpdate |-> StartNow, present |-> TRUE]
  /\ rogueResult = "success"

RegistryEmpty ==
  /\ rogueApps = {}
  /\ rogueInitialized = TRUE
  /\ rogueLastUpdate = 0
  /\ persistedApps = NoAppsRecord
  /\ rogueResult = "none"

LifeReady ==
  /\ isInitialized = TRUE
  /\ listenersReady = TRUE
  /\ eventListeners = RegisteredOnce
  /\ initializationPromise = 1
  /\ initializationRetries = 0
  /\ failsInRow = 0
  /\ alarmsThisRun = 0

LifeFallback ==
  /\ isInitialized = FALSE
  /\ listenersReady = FALSE
  /\ eventListeners = NoListeners
  /\ initializationPromise = 0
  /\ initializationRetries = maxInitializationRetries
  /\ failsInRow = maxInitializationRetries
  /\ alarmsThisRun = maxInitializationRetries - 1

InitOut ==
  /\ tabUrl \in [Tabs -> {MsLoginUrl, EvilUrl}]
  /\ session = [t \in Tabs |-> NoRecord]
  /\ tabHeaders = NoHeaders
  /\ tabQueues = {}
  /\ chain = [t \in Tabs |-> <<>>]
  /\ tabDebounce = [t \in Tabs |-> NoTimer]
  /\ run = [t \in Tabs |-> Idle]
  /\ currentLoad = [t \in Tabs |-> FALSE]
  /\ lastDecision = [t \in Tabs |-> "none"]
  /\ coreListeners = TRUE
  /\ running = {}
  /\ retryScheduled = FALSE
  /\ errorCount = 0
  /\ atGate = [k \in Seqs |-> 0]
  /\ inSwitch = 0
  /\ alarm = NoAlarm
  /\ lastPing = NoPing
  /\ epoch = 0
  /\ rogueFetching = 0
  /\ rogueLoad = NoLoad
  /\ fetcher = EmptyBag
  /\ getResult = NotAsked
  /\ remoteEverOk = FALSE
  /\ now = StartNow
  /\ \/ /\ LifeReady
        /\ RegistryLoaded \/ RegistryEmpty
        /\ cachedRules = Bundled
        /\ rulesLastUpdate = StartNow
        /\ rulesInitialized = TRUE
        /\ persistedRules = [rules |-> Bundled, lastUpdate |-> StartNow,
                             source |-> "remoteUrl"]
        /\ updateResult = "ok"
        /\ bootCache = "absent"
     \/ /\ LifeFallback
        /\ rogueApps = {}
        /\ rogueInitialized = FALSE
        /\ rogueLastUpdate = 0
        /\ persistedApps = NoAppsRecord
        /\ rogueResult = "none"
        /\ cachedRules = NoRules
        /\ rulesLastUpdate = 0
        /\ rulesInitialized = FALSE
        /\ persistedRules = NoRulesRecord
        /\ updateResult = "none"
        /\ bootCache = "none"
  /\ PageLoaded
  /\ observed = TRUE
  /\ OutputsClear
  /\ HeaderClockIdle
  /\ QueuesIdle
  /\ LogsIdle

\* ------------------------------------------------------------------------
\* SpecMsg: messages of senders with and without a tab.  The popup and the
\* options page are extension pages: their messages carry no sender.tab.
\* ------------------------------------------------------------------------
TablessTypes == {"FLAG_PHISHY", "FLAG_TRUSTED_BY_REFERRER"}

\* case 'FLAG_PHISHY' and case 'FLAG_TRUSTED_BY_REFERRER' of a sender
\* without a tab: the body of if (sender.tab?.id) is skipped
FlagWithoutTab(type) ==
  /\ lastReply' = IF observed THEN NoResponse(type) ELSE lastReply
  /\ UNCHANGED <<observed, injected, badge, lastEvent>>
  /\ UNCHANGED <<verdictVars, lifeVars, cacheVars, pageVars, hdrVars, logVars, queueVars>>

\* the default case of the switch
UnknownMessage ==
  /\ sendResponse(Reply("unknown", FALSE, "null"))
  /\ UNCHANGED <<observed, injected, badge, lastEvent>>
  /\ UNCHANGED <<verdictVars, lifeVars, cacheVars, pageVars, hdrVars, logVars, queueVars>>

NextMsg ==
  \/ \E t \in Tabs, ok \in BOOLEAN : FlagPhishy(t, ok)
  \/ \E t \in Tabs, ok \in BOOLEAN : FlagTrustedByReferrer(t, ok)
  \/ \E type \in TablessTypes : FlagWithoutTab(type)
  \/ UnknownMessage

NextOut ==
  \E t \in Tabs :
    \/ OnUpdated(t, "complete")
    \/ DebounceFire(t)
    \/ HTUStart(t)
    \/ \E ok \in BOOLEAN : HTUWrite(t, ok)
    \/ \E ok \in BOOLEAN : FlagPhishy(t, ok)
    \/ \E ok \in BOOLEAN : FlagTrustedByReferrer(t, ok)
    \/ \E ok \in BOOLEAN : FlagMsLoginOnUnknownDomain(t, ok)
    \/ \E ok \in BOOLEAN : FlagRogueApp(t, ok)
    \/ \E ok \in BOOLEAN : UpdateVerdictToSafe(t, ok)
    \/ \E ok \in BOOLEAN, c \in ClientIds : CheckRogueApp(t, c, ok)

SpecOut == InitOut /\ [][NextOut]_vars
SpecMsg == InitOut /\ [][NextMsg]_vars

\* ------------------------------------------------------------------------
\* SpecQueue: enqueue, promise by promise.  tabQueues holds for each tab id
\* the promise `next` of the task enqueued last; a task is any async
\* function and can fulfil or reject.
\* ------------------------------------------------------------------------
\* the promise of a task: pending until the task has run to its end
TaskPromise(task) == IF task.state = "done" THEN task.outcome ELSE "pending"

\* .catch(() => {}): a rejection is swallowed
catch(promise) == IF promise = "rejected" THEN "fulfilled" ELSE promise

\* prev of the i-th task of a chain: tabQueues.get(tabId) || Promise.resolve()
\* when it was enqueued, which is the promise `next` of the task before it
prev(chainTasks, i) ==
  IF i = 1 THEN "fulfilled" ELSE catch(TaskPromise(chainTasks[i - 1]))

\* prev.finally(task): the task is called once prev has settled, whichever
\* way
finally_AtOnce(promise) == TRUE
finally(promise) == promise \in {"fulfilled", "rejected"}

\* enqueue(tabId, task)
EnqueueTask(q) ==
  /\ Len(tasks[q]) < MaxTasks
  /\ tasks' = [tasks EXCEPT ![q] = Append(@, [state |-> "waiting", outcome |-> "none"])]
  /\ UNCHANGED <<verdictVars, lifeVars, cacheVars, pageVars, outVars, hdrVars, logVars>>

\* the i-th task of the chain is called
TaskStarts(q, i) ==
  /\ i \in 1..Len(tasks[q])
  /\ tasks[q][i].state = "waiting"
  /\ finally(prev(tasks[q], i))
  /\ tasks' = [tasks EXCEPT ![q][i].state = "running"]
  /\ UNCHANGED <<verdictVars, lifeVars, cacheVars, pageVars, outVars, hdrVars, logVars>>

\* the promise a running task returned settles
TaskSettles(q, i, outcome) ==
  /\ i \in 1..Len(tasks[q])
  /\ tasks[q][i].state = "running"
  /\ tasks' = [tasks EXCEPT ![q][i] = [state |-> "done", outcome |-> outcome]]
  /\ UNCHANGED <<verdictVars, lifeVars, cacheVars, pageVars, outVars, hdrVars, logVars>>

NextQueue ==
  \E q \in QueueTabs :
    \/ EnqueueTask(q)
    \/ \E i \in 1..MaxTasks : TaskStarts(q, i)
    \/ \E i \in 1..MaxTasks : TaskSettles(q, i, "fulfilled")
    \/ \E i \in 1..MaxTasks : TaskSettles(q, i, "rejected")

SpecQueue == InitOut /\ [][NextQueue]_vars

\* SpecStale: navigations and closed tabs between a notification and its
\* handling, with the outputs followed
NextStale ==
  \E t \in Tabs :
    \/ \E u \in Urls : Navigate(t, u)
    \/ OnUpdated(t, "loading")
    \/ OnUpdated(t, "complete")
    \/ DebounceFire(t)
    \/ TabRemoved(t)
    \/ HTUStart(t)
    \/ \E ok \in BOOLEAN : HTUWrite(t, ok)

SpecStale == InitOut /\ [][NextStale]_vars

\* ------------------------------------------------------------------------
\* The header cache with more tabs than it holds: SpecHeaders.  Header
\* events, removals and GET_PAGE_HEADERS messages of tab ids beyond Tabs
\* are followed only in their effect on the cache; the tabs of Tabs stay
\* open and load nothing.
\* ------------------------------------------------------------------------

\* header events, removals and header requests handled in one behaviour
MaxHeaderEvents == 3
\* the worker's millisecond clock stops here
MaxMs == 301002

\* the further tab ids whose events are followed
BusyTabs ==
  {MAX_HEADER_CACHE_ENTRIES, MAX_HEADER_CACHE_ENTRIES + 1,
   MAX_HEADER_CACHE_ENTRIES + 2}

\* the time that passes between two events, in milliseconds: half the TTL,
\* or a millisecond more
MsDelays == {HEADER_CACHE_TTL \div 2, HEADER_CACHE_TTL \div 2 + 1}

\* the cache after main-frame responses of the tabs 1..n, received in the
\* order of their ids, in the reverse order, or in the order of their ids
\* with the first two within one millisecond
FilledCache(n, order) ==
  [x \in 1..n |-> CASE order = "ascending" -> x
                    [] order = "descending" -> n + 1 - x
                    [] OTHER -> IF x <= 2 THEN 1 ELSE x]

InitHeaders ==
  /\ tabUrl = [t \in Tabs |-> MsLoginUrl]
  /\ session = [t \in Tabs |-> NoRecord]
  /\ \/ tabHeaders = NoHeaders
     \/ \E n \in {MAX_HEADER_CACHE_ENTRIES - 1, MAX_HEADER_CACHE_ENTRIES},
           order \in {"ascending", "descending", "together"} :
          tabHeaders = FilledCache(n, order)
  /\ tabQueues = {}
  /\ chain = [t \in Tabs |-> <<>>]
  /\ tabDebounce = [t \in Tabs |-> NoTimer]
  /\ run = [t \in Tabs |-> Idle]
  /\ currentLoad = [t \in Tabs |-> FALSE]
  /\ lastDecision = [t \in Tabs |-> "none"]
  /\ WorkerInitialized
  /\ PageLoaded
  /\ observed = TRUE
  /\ OutputsClear
  /\ HeaderClockIdle
  /\ QueuesIdle
  /\ LogsIdle

\* onHeadersReceived for a main-frame response of tab id t
HeaderEvent(t) ==
  /\ listenersReady
  /\ headerEvents < MaxHeaderEvents
  /\ headerEvents' = headerEvents + 1
  /\ HeadersReceived(t)
  /\ UNCHANGED <<tabUrl, session, tabQueues, chain, tabDebounce, run, currentLoad, lastDecision>>
  /\ UNCHANGED <<lifeVars, cacheVars, pageVars, outVars, msNow, logVars, queueVars>>

\* onRemoved for tab id t, which has no queue and no timer; the removal of
\* a tab without a cached entry changes nothing
OtherTabRemoved(t) ==
  /\ listenersReady
  /\ t \in DOMAIN tabHeaders
  /\ headerEvents < MaxHeaderEvents
  /\ headerEvents' = headerEvents + 1
  /\ tabHeaders' = HeadersDelete(tabHeaders, t)
  /\ UNCHANGED <<tabUrl, session, tabQueues, chain, tabDebounce, run, currentLoad, lastDecision>>
  /\ UNCHANGED <<lifeVars, cacheVars, pageVars, outVars, msNow, logVars, queueVars>>

\* handleMessage, case GET_PAGE_HEADERS, sent from tab id t
GetPageHeaders(t) ==
  /\ headerEvents < MaxHeaderEvents
  /\ headerEvents' = headerEvents + 1
  /\ IF t \in DOMAIN tabHeaders /\ msNow - tabHeaders[t] > HEADER_CACHE_TTL
     THEN /\ tabHeaders' = HeadersDelete(tabHeaders, t)
          /\ sendResponse(Reply("GET_PAGE_HEADERS", TRUE, "{}"))
     ELSE /\ UNCHANGED tabHeaders
          /\ sendResponse(Reply("GET_PAGE_HEADERS", TRUE,
                                IF t \in DOMAIN tabHeaders THEN "headers" ELSE "{}"))
  /\ UNCHANGED <<tabUrl, session, tabQueues, chain, tabDebounce, run, currentLoad, lastDecision>>
  /\ UNCHANGED <<lifeVars, cacheVars, pageVars, observed, injected, badge, lastEvent, msNow, logVars, queueVars>>

\* time passes in the worker
MsPasses ==
  /\ \E d \in MsDelays : /\ msNow + d <= MaxMs
                         /\ msNow' = msNow + d
  /\ UNCHANGED <<verdictVars, lifeVars, cacheVars, pageVars, outVars, headerEvents, logVars, queueVars>>

NextHeaders ==
  \/ \E t \in BusyTabs : HeaderEvent(t) \/ OtherTabRemoved(t) \/ GetPageHeaders(t)
  \/ MsPasses

SpecHeaders == InitHeaders /\ [][NextHeaders]_vars

\* ------------------------------------------------------------------------
\* Batched log writes: logUrlAccess and logEvent push onto pendingLocal and
\* scheduleFlush() creates the check:flush alarm; _doFlush merges the batch
\* into the lists of chrome.storage.local.  SpecFlush.
\* ------------------------------------------------------------------------

\* log entries accepted in one behaviour
MaxEntries == 2
\* _doFlush runs in flight at once
MaxFlushes == 1

\* slice(-1000) of accessLogs, slice(-500) of securityEvents
accessLogsWindow == 1000
securityEventsWindow == 500
\* JSON.stringify(payload).length <= 4 * 1024 * 1024
maxPayloadLength == 4 * 1024 * 1024

\* length of JSON.stringify(logEntry): an entry with short URLs, and one
\* whose URL (stored twice in an access entry) has some 1900 characters
ShortEntry == 300
LongEntry == 4100

\* a log entry: its sequence number stands for its timestamp and content
Entry(n, type, length) == [n |-> n, type |-> type, length |-> length]

\* array.slice(-k)
slice_Head(s, k) == IF Len(s) <= k THEN s ELSE SubSeq(s, 1, k)
slice(s, k) == IF Len(s) <= k THEN s ELSE SubSeq(s, Len(s) - k + 1, Len(s))

\* length of JSON.stringify of an array of entries: the brackets, the
\* entries and the commas between them
ArrayLength(s) ==
  2 + ShortEntry * Cardinality({i \in 1..Len(s) : s[i].length = ShortEntry})
    + LongEntry * Cardinality({i \in 1..Len(s) : s[i].length = LongEntry})
    + (IF Len(s) > 1 THEN Len(s) - 1 ELSE 0)

\* JSON.stringify({accessLogs, securityEvents}).length: the braces, the two
\* quoted keys with their colons, the comma between them, and the arrays
PayloadLength(payload) ==
  33 + ArrayLength(payload.accessLogs) + ArrayLength(payload.securityEvents)

\* the lists earlier flushes have left in chrome.storage.local: a of one
\* length in accessLogs and s in securityEvents, numbered in their order
StoredHistory(a, s, length) ==
  [accessLogs |-> [i \in 1..a |-> Entry(i, "url_access", length)],
   securityEvents |-> [i \in 1..s |-> Entry(i, "security_event", length)]]

\* what an earlier flush can have written
Writable(payload) ==
  /\ Len(payload.accessLogs) <= accessLogsWindow
  /\ Len(payload.securityEvents) <= securityEventsWindow
  /\ PayloadLength(payload) <= maxPayloadLength

Histories ==
  {h \in {StoredHistory(0, 0, ShortEntry),
          StoredHistory(accessLogsWindow - 1, securityEventsWindow - 1, ShortEntry),
          StoredHistory(accessLogsWindow, 22, LongEntry)} : Writable(h)}

InitFlush ==
  /\ tabUrl = [t \in Tabs |-> MsLoginUrl]
  /\ session = [t \in Tabs |-> NoRecord]
  /\ tabHeaders = NoHeaders
  /\ tabQueues = {}
  /\ chain = [t \in Tabs |-> <<>>]
  /\ tabDebounce = [t \in Tabs |-> NoTimer]
  /\ run = [t \in Tabs |-> Idle]
  /\ currentLoad = [t \in Tabs |-> FALSE]
  /\ lastDecision = [t \in Tabs |-> "none"]
  /\ WorkerInitialized
  /\ PageLoaded
  /\ observed = FALSE
  /\ OutputsClear
  /\ HeaderClockIdle
  /\ QueuesIdle
  /\ pendingLocal = NoLogs
  /\ flushScheduled = FALSE
  /\ storedLogs \in Histories
  /\ flushReads = 0
  /\ flushWrites = EmptyBag
  /\ nextEntry = 1

\* scheduleFlush(): the alarm check:flush is pending while flushScheduled
scheduleFlush == flushScheduled' = TRUE

\* logUrlAccess with debug logging enabled, from the push on; the sequence
\* number of the entry is later than every stored one
LogUrlAccess(length) ==
  /\ nextEntry <= MaxEntries
  /\ nextEntry' = nextEntry + 1
  /\ pendingLocal' = [pendingLocal EXCEPT
                        !.accessLogs = Append(@, Entry(accessLogsWindow + nextEntry, "url_access", length))]
  /\ scheduleFlush
  /\ UNCHANGED <<storedLogs, flushReads, flushWrites>>
  /\ UNCHANGED <<verdictVars, lifeVars, cacheVars, pageVars, outVars, hdrVars, queueVars>>

\* logEvent, from the push on
LogEvent(length) ==
  /\ nextEntry <= MaxEntries
  /\ nextEntry' = nextEntry + 1
  /\ pendingLocal' = [pendingLocal EXCEPT
                        !.securityEvents =
                           Append(@, Entry(accessLogsWindow + nextEntry, "security_event", length))]
  /\ scheduleFlush
  /\ UNCHANGED <<storedLogs, flushReads, flushWrites>>
  /\ UNCHANGED <<verdictVars, lifeVars, cacheVars, pageVars, outVars, hdrVars, queueVars>>

\* the alarm check:flush fires: flushScheduled = false, _doFlush() starts
\* and awaits chrome.storage.local.get
FlushAlarm ==
  /\ coreListeners
  /\ flushScheduled
  /\ flushReads + BagCardinality(flushWrites) < MaxFlushes
  /\ flushScheduled' = FALSE
  /\ flushReads' = flushReads + 1
  /\ UNCHANGED <<pendingLocal, storedLogs, flushWrites, nextEntry>>
  /\ UNCHANGED <<verdictVars, lifeVars, cacheVars, pageVars, outVars, hdrVars, queueVars>>

\* _doFlush after its get: safe() turns a rejected get into undefined and
\* cur into {}; the batch is merged and emptied, and the payload is handed
\* to chrome.storage.local.set unless it is too long
FlushRead(ok) ==
  /\ flushReads > 0
  /\ flushReads' = flushReads - 1
  /\ LET cur == IF ok THEN storedLogs ELSE NoLogs
         access == slice(cur.accessLogs \o pendingLocal.accessLogs, accessLogsWindow)
         sec == slice(cur.securityEvents \o pendingLocal.securityEvents,
                      securityEventsWindow)
         payload == [accessLogs |-> access, securityEvents |-> sec]
     IN /\ pendingLocal' = NoLogs
        /\ flushWrites' = IF PayloadLength(payload) <= maxPayloadLength
                          THEN flushWrites (+) SetToBag({payload})
                          ELSE flushWrites
  /\ UNCHANGED <<flushScheduled, storedLogs, nextEntry>>
  /\ UNCHANGED <<verdictVars, lifeVars, cacheVars, pageVars, outVars, hdrVars, queueVars>>

\* chrome.storage.local.set(payload) is applied, or rejected and swallowed
\* by safe()
FlushWrite(payload, ok) ==
  /\ BagIn(payload, flushWrites)
  /\ flushWrites' = flushWrites (-) SetToBag({payload})
  /\ storedLogs' = IF ok THEN payload ELSE storedLogs
  /\ UNCHANGED <<pendingLocal, flushScheduled, flushReads, nextEntry>>
  /\ UNCHANGED <<verdictVars, lifeVars, cacheVars, pageVars, outVars, hdrVars, queueVars>>

NextFlush ==
  \/ \E length \in {ShortEntry, LongEntry} : LogUrlAccess(length) \/ LogEvent(length)
  \/ FlushAlarm
  \/ \E ok \in BOOLEAN : FlushRead(ok)
  \/ \E payload \in BagToSet(flushWrites), ok \in BOOLEAN : FlushWrite(payload, ok)

SpecFlush == InitFlush /\ [][NextFlush]_vars

\* the alarm fires and chrome.storage.local answers every call in the end
SpecFlushFair ==
  /\ SpecFlush
  /\ WF_vars(FlushAlarm)
  /\ WF_vars(\E ok \in BOOLEAN : FlushRead(ok))
  /\ WF_vars(\E payload \in BagToSet(flushWrites), ok \in BOOLEAN :
               FlushWrite(payload, ok))

\* ------------------------------------------------------------------------
\* Properties of the verdict coordinator (checked under Spec)
\* ------------------------------------------------------------------------

(* ------------------------------------------------------------------ *)
(* The lifecycle of the coordinator: initialize(), the retry alarm,   *)
(* the message gate and the error counter.                            *)
(* ------------------------------------------------------------------ *)

RECURSIVE SumGate(_, _)
SumGate(f, S) ==
  IF S = {} THEN 0
  ELSE LET k == CHOOSE x \in S : TRUE IN f[k] + SumGate(f, S \ {k})

\* the handlers that have not yet responded
HandlersInFlight == inSwitch + SumGate(atGate, Seqs)

\* the retry condition of _doInitialize's catch block
ShouldRetry_Inclusive(retries) == retries <= maxInitializationRetries
ShouldRetry(retries) == retries < maxInitializationRetries

\* the delay of the retry alarm, in milliseconds
RetryDelay_Constant(retries) == 1000
RetryDelay(retries) == 1000 * retries

\* the handlers awaiting sequence k go on into the switch
ReleaseGate(k) ==
  /\ inSwitch' = inSwitch + atGate[k]
  /\ atGate' = [atGate EXCEPT ![k] = 0]

\* _doInitialize ran to its end
InitSucceeds(k) ==
  /\ k \in running
  /\ running' = running \ {k}
  /\ listenersReady' = TRUE
  /\ eventListeners' = setupEventListeners(listenersReady, eventListeners)
  /\ isInitialized' = TRUE
  /\ initializationRetries' = 0
  /\ errorCount' = 0
  /\ ReleaseGate(k)
  /\ failsInRow' = 0
  /\ alarmsThisRun' = 0
  /\ UNCHANGED <<coreListeners, initializationPromise, retryScheduled, alarm,
                 lastPing, epoch>>
  /\ UNCHANGED <<verdictVars, cacheVars, pageVars, outVars, hdrVars, logVars, queueVars>>

\* enterFallbackMode
enterFallbackMode == isInitialized' = FALSE

\* _doInitialize threw: its catch block
InitFails(k) ==
  /\ k \in running
  /\ initializationRetries < MaxRetryCount
  /\ running' = running \ {k}
  /\ initializationRetries' = initializationRetries + 1
  /\ failsInRow' = failsInRow + 1
  /\ initializationPromise' = 0
  /\ IF ShouldRetry(initializationRetries')
     THEN /\ retryScheduled' = TRUE
          /\ alarm' = [pending |-> TRUE, delay |-> RetryDelay(initializationRetries')]
          /\ alarmsThisRun' = alarmsThisRun + 1
          /\ UNCHANGED isInitialized
     ELSE /\ enterFallbackMode
          /\ UNCHANGED <<retryScheduled, alarm, alarmsThisRun>>
  /\ ReleaseGate(k)
  /\ UNCHANGED <<listenersReady, eventListeners, coreListeners, errorCount, lastPing, epoch>>
  /\ UNCHANGED <<verdictVars, cacheVars, pageVars, outVars, hdrVars, logVars, queueVars>>

\* the chrome.alarms.onAlarm listener of setupCoreListeners
AlarmFires ==
  /\ alarm.pending
  /\ alarm' = NoAlarm
  /\ IF coreListeners
     THEN /\ retryScheduled' = FALSE
          /\ initialize(isInitialized, initializationPromise, FALSE)
     ELSE UNCHANGED <<retryScheduled, initializationPromise, running>>
  /\ UNCHANGED <<isInitialized, listenersReady, eventListeners, coreListeners, initializationRetries,
                 errorCount, atGate, inSwitch, lastPing, epoch, failsInRow,
                 alarmsThisRun>>
  /\ UNCHANGED <<verdictVars, cacheVars, pageVars, outVars, hdrVars, logVars, queueVars>>

\* the response of handleMessage to a ping
PingResponse ==
  [answered |-> TRUE, initialized |-> isInitialized, fallbackMode |-> ~isInitialized]

Ping ==
  /\ lastPing' = PingResponse
  /\ UNCHANGED <<isInitialized, listenersReady, eventListeners, coreListeners, initializationPromise,
                 running, initializationRetries, retryScheduled, errorCount, atGate,
                 inSwitch, alarm, epoch, failsInRow, alarmsThisRun>>
  /\ UNCHANGED <<verdictVars, cacheVars, pageVars, outVars, hdrVars, logVars, queueVars>>

\* handleMessage up to the switch: the gate awaits initialize()
MessageArrives ==
  /\ HandlersInFlight < MaxHandlers
  /\ IF isInitialized
     THEN /\ inSwitch' = inSwitch + 1
          /\ UNCHANGED <<initializationPromise, running, atGate>>
     ELSE /\ initialize(isInitialized, initializationPromise, retryScheduled)
          /\ IF initializationPromise' \in running'
             THEN /\ atGate' = [atGate EXCEPT ![initializationPromise'] = @ + 1]
                  /\ UNCHANGED inSwitch
             ELSE /\ inSwitch' = inSwitch + 1
                  /\ UNCHANGED atGate
  /\ UNCHANGED <<isInitialized, listenersReady, eventListeners, coreListeners, initializationRetries,
                 retryScheduled, errorCount, alarm, lastPing, epoch, failsInRow,
                 alarmsThisRun>>
  /\ UNCHANGED <<verdictVars, cacheVars, pageVars, outVars, hdrVars, logVars, queueVars>>

\* a case of the switch responds
HandlerReturns ==
  /\ inSwitch > 0
  /\ inSwitch' = inSwitch - 1
  /\ UNCHANGED <<isInitialized, listenersReady, eventListeners, coreListeners, initializationPromise,
                 running, initializationRetries, retryScheduled, errorCount, atGate,
                 alarm, lastPing, epoch, failsInRow, alarmsThisRun>>
  /\ UNCHANGED <<verdictVars, cacheVars, pageVars, outVars, hdrVars, logVars, queueVars>>

\* a case of the switch throws
HandlerThrows ==
  /\ inSwitch > 0
  /\ inSwitch' = inSwitch - 1
  /\ CatchBlock
  /\ UNCHANGED <<listenersReady, eventListeners, coreListeners, initializationRetries, retryScheduled,
                 atGate, alarm, lastPing, epoch, failsInRow, alarmsThisRun>>
  /\ UNCHANGED <<verdictVars, cacheVars, pageVars, outVars, hdrVars, logVars, queueVars>>

\* the worker is stopped and started again: the constructor registers the
\* core listeners and the bootstrap calls initialize(); alarms and
\* session storage outlive the process (the two managers are constructed
\* anew, which is the state SpecLife keeps them in)
Restart ==
  /\ epoch' = 1 - epoch
  /\ coreListeners' = TRUE
  /\ isInitialized' = FALSE
  /\ listenersReady' = FALSE
  /\ eventListeners' = NoListeners
  /\ initializationPromise' = 1
  /\ running' = {1}
  /\ initializationRetries' = 0
  /\ retryScheduled' = FALSE
  /\ errorCount' = 0
  /\ atGate' = [k \in Seqs |-> 0]
  /\ inSwitch' = 0
  /\ lastPing' = NoPing
  /\ failsInRow' = 0
  /\ alarmsThisRun' = 0
  /\ tabHeaders' = NoHeaders
  /\ tabQueues' = {}
  /\ chain' = [t \in Tabs |-> <<>>]
  /\ tabDebounce' = [t \in Tabs |-> NoTimer]
  /\ run' = [t \in Tabs |-> Idle]
  /\ UNCHANGED <<alarm, tabUrl, session, currentLoad, lastDecision>>
  /\ UNCHANGED <<cacheVars, pageVars, outVars, hdrVars, logVars, queueVars>>

\* the lifecycle fields after the constructor and the bootstrap
LifeStarted ==
  /\ isInitialized = FALSE
  /\ listenersReady = FALSE
  /\ eventListeners = NoListeners
  /\ coreListeners = TRUE
  /\ initializationPromise = 1
  /\ running = {1}
  /\ initializationRetries = 0
  /\ retryScheduled = FALSE
  /\ errorCount = 0
  /\ atGate = [k \in Seqs |-> 0]
  /\ inSwitch = 0
  /\ alarm = NoAlarm
  /\ lastPing = NoPing
  /\ epoch = 0
  /\ failsInRow = 0
  /\ alarmsThisRun = 0

\* the worker was started: constructor and bootstrap have run
InitLife ==
  /\ tabUrl = [t \in Tabs |-> MsLoginUrl]
  /\ session = [t \in Tabs |-> NoRecord]
  /\ tabHeaders = NoHeaders
  /\ tabQueues = {}
  /\ chain = [t \in Tabs |-> <<>>]
  /\ tabDebounce = [t \in Tabs |-> NoTimer]
  /\ run = [t \in Tabs |-> Idle]
  /\ currentLoad = [t \in Tabs |-> FALSE]
  /\ lastDecision = [t \in Tabs |-> "none"]
  /\ LifeStarted
  /\ CachesConstructed
  /\ now = StartNow
  /\ persistedRules = NoRulesRecord
  /\ persistedApps = NoAppsRecord
  /\ PageLoaded
  /\ observed = FALSE
  /\ OutputsClear
  /\ HeaderClockIdle
  /\ QueuesIdle
  /\ LogsIdle

NextLife ==
  \/ \E k \in Seqs : InitSucceeds(k)
  \/ \E k \in Seqs : InitFails(k)
  \/ AlarmFires
  \/ Ping
  \/ MessageArrives
  \/ HandlerReturns
  \/ HandlerThrows
  \/ Restart

SpecLife == InitLife /\ [][NextLife]_vars


(* ------------------------------------------------------------------ *)
(* The two caches: DetectionRulesManager and RogueAppsManager.  Time  *)
(* is counted in hours.  The file shipped with the extension can      *)
(* always be fetched; remote fetches and storage writes can fail.     *)
(* ------------------------------------------------------------------ *)

\* the age test of DetectionRulesManager.loadFromCache
CacheUsable_Always(cacheAge) == TRUE
CacheUsable(cacheAge) == cacheAge < updateInterval

\* loadFromCache of the rules takes the record
RulesLoadable(rec) ==
  /\ rec.rules # NoRules
  /\ rec.lastUpdate # 0
  /\ CacheUsable(now - rec.lastUpdate)

\* cachedRules and lastUpdate after loadFromCache
LoadedRules == IF RulesLoadable(persistedRules) THEN persistedRules.rules ELSE cachedRules
LoadedStamp ==
  IF RulesLoadable(persistedRules) THEN persistedRules.lastUpdate ELSE rulesLastUpdate

\* the test of initialize() that starts a refresh
UpdateDue_Never(lastUpdate, interval) == FALSE
UpdateDue(lastUpdate, interval) == now - lastUpdate > interval

\* the calls in flight are a bag: one more call, and one call moving on
Spawn(F, caller) == F (+) SetToBag({StartedFetch(caller)})
FreeSlots(F) == MaxFetchers - BagCardinality(F)
Step(F, from, to) == (F (-) SetToBag({from})) (+) SetToBag({to})

\* the record initialize() finds in chrome.storage.local
BootClass ==
  IF persistedRules = NoRulesRecord THEN "absent"
  ELSE IF now - persistedRules.lastUpdate < 24 THEN "fresh" ELSE "expired"

\* DetectionRulesManager.initialize, as _doInitialize calls it
RulesInitialize ==
  /\ ~rulesInitialized
  /\ cachedRules' = LoadedRules
  /\ rulesLastUpdate' = LoadedStamp
  /\ rulesInitialized' = TRUE
  /\ bootCache' = BootClass
  /\ IF UpdateDue(LoadedStamp, updateInterval)
     THEN /\ FreeSlots(fetcher) >= 1
          /\ fetcher' = Spawn(fetcher, "update")
     ELSE UNCHANGED fetcher
  /\ UNCHANGED <<persistedRules, getResult, updateResult, remoteEverOk, now>>
  /\ UNCHANGED <<verdictVars, lifeVars, rogueVars, pageVars, outVars, hdrVars, logVars, queueVars>>

\* getDetectionRules up to its return or to its call of fetchDetectionRules
GetDetectionRules ==
  /\ IF rulesInitialized
     THEN /\ UNCHANGED <<cachedRules, rulesLastUpdate, rulesInitialized, bootCache>>
          /\ IF cachedRules # NoRules
             THEN /\ getResult' = cachedRules
                  /\ UNCHANGED fetcher
             ELSE /\ FreeSlots(fetcher) >= 1
                  /\ fetcher' = Spawn(fetcher, "get")
                  /\ UNCHANGED getResult
     ELSE /\ cachedRules' = LoadedRules
          /\ rulesLastUpdate' = LoadedStamp
          /\ rulesInitialized' = TRUE
          /\ bootCache' = BootClass
          /\ LET due == UpdateDue(LoadedStamp, updateInterval)
                 need == (IF due THEN 1 ELSE 0) + (IF LoadedRules = NoRules THEN 1 ELSE 0)
                 F1 == IF due THEN Spawn(fetcher, "update") ELSE fetcher
             IN /\ FreeSlots(fetcher) >= need
                /\ IF LoadedRules # NoRules
                   THEN /\ getResult' = LoadedRules
                        /\ fetcher' = F1
                   ELSE /\ fetcher' = Spawn(F1, "get")
                        /\ UNCHANGED getResult
  /\ UNCHANGED <<persistedRules, updateResult, remoteEverOk, now>>
  /\ UNCHANGED <<verdictVars, lifeVars, rogueVars, pageVars, outVars, hdrVars, logVars, queueVars>>

\* forceUpdate: updateDetectionRules calls fetchDetectionRules
ForceUpdateRules ==
  /\ FreeSlots(fetcher) >= 1
  /\ fetcher' = Spawn(fetcher, "update")
  /\ UNCHANGED <<cachedRules, rulesLastUpdate, rulesInitialized, persistedRules,
                 getResult, updateResult, remoteEverOk, bootCache, now>>
  /\ UNCHANGED <<verdictVars, lifeVars, rogueVars, pageVars, outVars, hdrVars, logVars, queueVars>>

\* the remote fetch of fetchDetectionRules settles: a good answer, of any
\* shape, goes to saveToCache; an error goes on to the shipped file
RemoteFetchEnds(f, outcome) ==
  /\ f \in BagToSet(fetcher)
  /\ f.pc = "remote"
  /\ IF outcome \in {"ok", "wrong-shape"}
     THEN /\ fetcher' = Step(fetcher, f,
                 [f EXCEPT !.pc = "save",
                           !.payload = IF outcome = "ok" THEN RemoteV1 ELSE Malformed,
                           !.stamp = now, !.overdue = FALSE])
          /\ remoteEverOk' = TRUE
     ELSE /\ fetcher' = Step(fetcher, f,
                 [f EXCEPT !.pc = "fallback", !.remoteFailed = TRUE,
                           !.overdue = FALSE])
          /\ UNCHANGED remoteEverOk
  /\ UNCHANGED <<cachedRules, rulesLastUpdate, rulesInitialized, persistedRules,
                 getResult, updateResult, bootCache, now>>
  /\ UNCHANGED <<verdictVars, lifeVars, rogueVars, pageVars, outVars, hdrVars, logVars, queueVars>>

\* ten seconds after fetch(remoteUrl) was issued the server has not
\* answered: the call has no abort signal and no timer, so nothing runs and
\* the call goes on waiting (overdue is history)
TenSecondsPass(f) ==
  /\ f \in BagToSet(fetcher)
  /\ f.pc = "remote"
  /\ ~f.overdue
  /\ fetcher' = Step(fetcher, f, [f EXCEPT !.overdue = TRUE])
  /\ UNCHANGED <<cachedRules, rulesLastUpdate, rulesInitialized, persistedRules,
                 getResult, updateResult, remoteEverOk, bootCache, now>>
  /\ UNCHANGED <<verdictVars, lifeVars, rogueVars, pageVars, outVars, hdrVars, logVars, queueVars>>

\* the fetch of the shipped file settles and saveToCache is called with it
FallbackFetchEnds(f) ==
  /\ f \in BagToSet(fetcher)
  /\ f.pc = "fallback"
  /\ fetcher' = Step(fetcher, f,
        [f EXCEPT !.pc = "save", !.payload = Bundled, !.stamp = now])
  /\ UNCHANGED <<cachedRules, rulesLastUpdate, rulesInitialized, persistedRules,
                 getResult, updateResult, remoteEverOk, bootCache, now>>
  /\ UNCHANGED <<verdictVars, lifeVars, rogueVars, pageVars, outVars, hdrVars, logVars, queueVars>>

\* the storage write of saveToCache settles; fetchDetectionRules returns
\* the rules to getDetectionRules or to updateDetectionRules
SaveEnds(f, ok) ==
  /\ f \in BagToSet(fetcher)
  /\ f.pc = "save"
  /\ IF ok
     THEN /\ persistedRules' = [rules |-> f.payload,
                                lastUpdate |-> f.stamp, source |-> "remoteUrl"]
          /\ cachedRules' = f.payload
          /\ rulesLastUpdate' = f.stamp
     ELSE UNCHANGED <<persistedRules, cachedRules, rulesLastUpdate>>
  /\ IF f.caller = "get"
     THEN /\ getResult' = f.payload
          /\ UNCHANGED updateResult
     ELSE /\ updateResult' = "ok"
          /\ UNCHANGED getResult
  /\ fetcher' = fetcher (-) SetToBag({f})
  /\ UNCHANGED <<rulesInitialized, remoteEverOk, bootCache, now>>
  /\ UNCHANGED <<verdictVars, lifeVars, rogueVars, pageVars, outVars, hdrVars, logVars, queueVars>>

\* the test of RogueAppsManager.loadFromCache
RogueLoadable(rec) ==
  /\ rec.present
  /\ rec.lastUpdate # 0
  /\ ~(now - rec.lastUpdate > cacheDuration)

\* RogueAppsManager.initialize up to the storage read of loadFromCache;
\* storage answers with the record it holds when the read is issued
RogueInitialize ==
  /\ ~rogueInitialized
  /\ ~rogueLoad.pending
  /\ rogueLoad' = [pending |-> TRUE, rec |-> persistedApps]
  /\ UNCHANGED <<rogueApps, rogueInitialized, rogueLastUpdate, persistedApps,
                 rogueFetching, rogueResult, now>>
  /\ UNCHANGED <<verdictVars, lifeVars, rulesVars, pageVars, outVars, hdrVars, logVars, queueVars>>

\* the read settles: the rest of loadFromCache and of initialize
RogueInitializeEnds ==
  /\ rogueLoad.pending
  /\ LET rec == rogueLoad.rec
         stamp == IF RogueLoadable(rec) THEN rec.lastUpdate ELSE rogueLastUpdate
     IN /\ rogueLastUpdate' = stamp
        /\ rogueApps' = IF RogueLoadable(rec) THEN rec.apps ELSE rogueApps
        /\ IF UpdateDue(stamp, rogueUpdateInterval)
           THEN /\ rogueFetching < MaxFetchers
                /\ rogueFetching' = rogueFetching + 1
           ELSE UNCHANGED rogueFetching
  /\ rogueInitialized' = TRUE
  /\ rogueLoad' = NoLoad
  /\ UNCHANGED <<persistedApps, rogueResult, now>>
  /\ UNCHANGED <<verdictVars, lifeVars, rulesVars, pageVars, outVars, hdrVars, logVars, queueVars>>

\* RogueAppsManager.forceUpdate calls updateRogueApps, which touches the
\* table only after its fetch has settled
RogueForceUpdate_ClearsFirst ==
  /\ rogueFetching < MaxFetchers
  /\ rogueFetching' = rogueFetching + 1
  /\ rogueApps' = {}
  /\ UNCHANGED <<rogueInitialized, rogueLastUpdate, persistedApps,
                 rogueResult, rogueLoad, now>>
  /\ UNCHANGED <<verdictVars, lifeVars, rulesVars, pageVars, outVars, hdrVars, logVars, queueVars>>
RogueForceUpdate ==
  /\ rogueFetching < MaxFetchers
  /\ rogueFetching' = rogueFetching + 1
  /\ UNCHANGED <<rogueApps, rogueInitialized, rogueLastUpdate, persistedApps,
                 rogueResult, rogueLoad, now>>
  /\ UNCHANGED <<verdictVars, lifeVars, rulesVars, pageVars, outVars, hdrVars, logVars, queueVars>>

\* the fetch of updateRogueApps settles and the rest of updateRogueApps
\* runs; of a list with a null element, the elements before it are stored
RogueFetchEnds(outcome, ok, before) ==
  /\ rogueFetching > 0
  /\ rogueFetching' = rogueFetching - 1
  /\ IF outcome = "ok"
     THEN /\ rogueApps' = RemoteApps
          /\ rogueLastUpdate' = now
          /\ persistedApps' =
               IF ok THEN [apps |-> RemoteApps, lastUpdate |-> now, present |-> TRUE]
               ELSE persistedApps
          /\ rogueResult' = "success"
     ELSE /\ rogueApps' = IF outcome = "null-element" THEN before ELSE rogueApps
          /\ rogueResult' = "error"
          /\ UNCHANGED <<rogueLastUpdate, persistedApps>>
  /\ UNCHANGED <<rogueInitialized, rogueLoad, now>>
  /\ UNCHANGED <<verdictVars, lifeVars, rulesVars, pageVars, outVars, hdrVars, logVars, queueVars>>

\* Date.now() moves on
TimePasses ==
  /\ \E d \in Delays : /\ now + d <= MaxNow
                       /\ now' = now + d
  /\ UNCHANGED <<verdictVars, lifeVars, rogueVars, rulesVars, pageVars, outVars, hdrVars, logVars, queueVars>>

\* the worker was started, no tab event was handled yet
WorkerStarted ==
  /\ tabUrl = [t \in Tabs |-> MsLoginUrl]
  /\ session = [t \in Tabs |-> NoRecord]
  /\ tabHeaders = NoHeaders
  /\ tabQueues = {}
  /\ chain = [t \in Tabs |-> <<>>]
  /\ tabDebounce = [t \in Tabs |-> NoTimer]
  /\ run = [t \in Tabs |-> Idle]
  /\ currentLoad = [t \in Tabs |-> FALSE]
  /\ lastDecision = [t \in Tabs |-> "none"]
  /\ LifeStarted
  /\ CachesConstructed
  /\ now = StartNow
  /\ observed = FALSE
  /\ OutputsClear
  /\ HeaderClockIdle
  /\ QueuesIdle
  /\ LogsIdle

\* the same, with a page that waits for its first trigger
Started ==
  /\ WorkerStarted
  /\ PageLoaded

\* chrome.storage.local holds the rules record an earlier run left, if any
InitCache ==
  /\ Started
  /\ persistedRules \in
       {NoRulesRecord,
        [rules |-> RemoteV1, lastUpdate |-> StartNow - 1, source |-> "remoteUrl"],
        [rules |-> RemoteV1, lastUpdate |-> StartNow - updateInterval - 1,
         source |-> "remoteUrl"]}
  /\ persistedApps = NoAppsRecord

\* chrome.storage.local holds the registry record an earlier run left, if any
InitRogue ==
  /\ Started
  /\ persistedRules = NoRulesRecord
  /\ persistedApps \in
       {NoAppsRecord,
        [apps |-> {RogueId}, lastUpdate |-> StartNow - 1, present |-> TRUE],
        [apps |-> {RogueId}, lastUpdate |-> StartNow - cacheDuration - 1,
         present |-> TRUE]}

NextCache ==
  \/ RulesInitialize
  \/ GetDetectionRules
  \/ ForceUpdateRules
  \/ \E f \in BagToSet(fetcher), outcome \in RemoteOutcomes : RemoteFetchEnds(f, outcome)
  \/ \E f \in BagToSet(fetcher) : TenSecondsPass(f)
  \/ \E f \in BagToSet(fetcher) : FallbackFetchEnds(f)
  \/ \E f \in BagToSet(fetcher), ok \in BOOLEAN : SaveEnds(f, ok)
  \/ TimePasses

SpecCache == InitCache /\ [][NextCache]_vars

NextRogue ==
  \/ RogueInitialize
  \/ RogueInitializeEnds
  \/ RogueForceUpdate
  \/ \E outcome \in RogueOutcomes, ok \in BOOLEAN, before \in {{}, {RogueId}} :
       RogueFetchEnds(outcome, ok, before)
  \/ TimePasses

SpecRogue == InitRogue /\ [][NextRogue]_vars

\* The start of the worker: _doInitialize initializes both managers, and
\* the refreshes they start run on; storage holds what earlier runs left.
InitStartup ==
  /\ Started
  /\ persistedRules \in
       {NoRulesRecord,
        [rules |-> RemoteV1, lastUpdate |-> StartNow - 1, source |-> "remoteUrl"],
        [rules |-> RemoteV1, lastUpdate |-> StartNow - updateInterval - 1,
         source |-> "remoteUrl"]}
  /\ persistedApps \in
       {NoAppsRecord,
        [apps |-> {RogueId}, lastUpdate |-> StartNow - 1, present |-> TRUE],
        [apps |-> {RogueId}, lastUpdate |-> StartNow - rogueUpdateInterval - 1,
         present |-> TRUE],
        [apps |-> {RogueId}, lastUpdate |-> StartNow - cacheDuration - 1,
         present |-> TRUE]}

NextStartup ==
  \/ RulesInitialize
  \/ \E f \in BagToSet(fetcher), outcome \in RemoteOutcomes : RemoteFetchEnds(f, outcome)
  \/ \E f \in BagToSet(fetcher) : TenSecondsPass(f)
  \/ \E f \in BagToSet(fetcher) : FallbackFetchEnds(f)
  \/ \E f \in BagToSet(fetcher), ok \in BOOLEAN : SaveEnds(f, ok)
  \/ RogueInitialize
  \/ RogueInitializeEnds
  \/ \E outcome \in RogueOutcomes, ok \in BOOLEAN, before \in {{}, {RogueId}} :
       RogueFetchEnds(outcome, ok, before)
  \/ TimePasses

SpecStartup == InitStartup /\ [][NextStartup]_vars


(* ------------------------------------------------------------------ *)
(* The scan of the content script: analyzePageForPhishing and         *)
(* runProtection.                                                     *)
(* ------------------------------------------------------------------ *)

\* element.pattern && new RegExp(element.pattern, 'i').test(pageSource):
\* the constructor throws when the pattern does not compile
ElementThrows(element) == element.pattern.src # "" /\ ~element.pattern.valid
ElementMatches(element) ==
  element.pattern.src # "" /\ element.pattern.valid /\ element.pattern.hits

\* one of the two loops over a list of elements
RECURSIVE ScanList(_)
ScanList(list) ==
  IF list = <<>>
  THEN [threw |-> FALSE, ids |-> <<>>, weight |-> 0, count |-> 0]
  ELSE LET element == Head(list)
           rest == ScanList(Tail(list))
       IN IF ElementThrows(element)
          THEN [rest EXCEPT !.threw = TRUE]
          ELSE IF ElementMatches(element)
               THEN [threw |-> rest.threw, ids |-> <<element.id>> \o rest.ids,
                     weight |-> element.weight + rest.weight, count |-> rest.count + 1]
               ELSE rest

\* matchesAnyPattern: a pattern that does not compile is logged and skipped
matchesAnyPattern(url, patterns) ==
  \E i \in 1..Len(patterns) : patterns[i].valid /\ url \in patterns[i].matches

\* isTrustedLoginDomain: the patterns are tested against new URL(url).origin
isTrustedLoginDomain_Href(url) == matchesAnyPattern(Href(url), TrustedLoginPatterns)
isTrustedLoginDomain(url) == matchesAnyPattern(url.origin, TrustedLoginPatterns)

\* the comparisons of the candidate test
AtLeast_Strict(count, minimum) == count > minimum
AtLeast(count, minimum) == count >= minimum

\* Math.min(totalWeight / minimum_total_weight, 1), as a fraction
Confidence_Unclamped(totalWeight, minimum) == [num |-> totalWeight, den |-> minimum]
Confidence(totalWeight, minimum) ==
  IF totalWeight >= minimum THEN [num |-> 1, den |-> 1]
  ELSE [num |-> totalWeight, den |-> minimum]

\* result.confidence > 0.8 ? 'high' : 'medium', of a confidence num/den
Severity_AboveOne(confidence) ==
  IF confidence.num > confidence.den THEN "high" ELSE "medium"
Severity(confidence) ==
  IF 10 * confidence.num > 8 * confidence.den THEN "high" ELSE "medium"

\* analyzePageForPhishing: the result, unless a RegExp constructor threw
analyzePageForPhishing(rules, url) ==
  LET p == ScanList(rules.primary_elements)
      s == ScanList(rules.secondary_elements)
      thresholds == rules.detection_thresholds
      detectedElements == p.ids \o s.ids
      totalWeight == p.weight + s.weight
      candidate ==
        /\ AtLeast(p.count, thresholds.minimum_primary_elements)
        /\ AtLeast(totalWeight, thresholds.minimum_total_weight)
        /\ AtLeast(Len(detectedElements), thresholds.minimum_elements_overall)
      isPhishing == candidate /\ ~isTrustedLoginDomain(url)
  IN [threw |-> p.threw \/ s.threw,
      result |->
        [produced |-> TRUE, isPhishing |-> isPhishing,
         confidence |-> IF isPhishing
                        THEN Confidence(totalWeight, thresholds.minimum_total_weight)
                        ELSE [num |-> 0, den |-> 1],
         severity |-> IF isPhishing
                      THEN Severity(Confidence(totalWeight,
                                               thresholds.minimum_total_weight))
                      ELSE Undefined,
         detectedElements |-> detectedElements, totalWeight |-> totalWeight,
         primaryElementsCount |-> p.count, secondaryElementsCount |-> s.count]]

\* the rate limit of runProtection
RateLimited_NoCap(clock, last, count) == clock - last < SCAN_COOLDOWN
RateLimited(clock, last, count) == clock - last < SCAN_COOLDOWN \/ count >= MAX_SCANS

\* runProtection, called by DOMContentLoaded or by the MutationObserver
RunProtection ==
  /\ ~blocked
  /\ IF RateLimited(pageClock, lastScanTime, scanCount)
     THEN /\ lastTrigger' = "refused"
          /\ UNCHANGED <<lastDetectionResult, blocked, scanError, scanCount,
                         lastScanTime, scanStarts, sent>>
     ELSE /\ lastTrigger' = "started"
          /\ lastScanTime' = pageClock
          /\ scanCount' = scanCount + 1
          /\ scanStarts' = Append(scanStarts, pageClock)
          /\ sent' = sent \cup {"get_detection_rules"}
          /\ IF isTrustedLoginDomain(pageUrl)
             THEN UNCHANGED <<lastDetectionResult, blocked, scanError>>
             ELSE LET a == analyzePageForPhishing(pageRules, pageUrl)
                  IN IF a.threw
                     THEN /\ scanError' = TRUE
                          /\ UNCHANGED <<lastDetectionResult, blocked>>
                     ELSE /\ lastDetectionResult' = a.result
                          /\ blocked' = a.result.isPhishing
                          /\ UNCHANGED scanError
  /\ UNCHANGED <<pageUrl, pageRules, pageClock>>
  /\ UNCHANGED <<verdictVars, lifeVars, cacheVars, outVars, hdrVars, logVars, queueVars>>

\* Date.now() of the page moves on
ClockDelays == {600, 1200}
ClockTicks ==
  /\ \E d \in ClockDelays : /\ pageClock + d <= MaxClock
                            /\ pageClock' = pageClock + d
  /\ UNCHANGED <<pageUrl, pageRules, lastDetectionResult, blocked, scanError,
                 scanCount, lastScanTime, scanStarts, lastTrigger, sent>>
  /\ UNCHANGED <<verdictVars, lifeVars, cacheVars, outVars, hdrVars, logVars, queueVars>>

\* one page with any of the rule sets, and the triggers of its first moment
InitScan ==
  /\ WorkerStarted
  /\ persistedRules = NoRulesRecord
  /\ persistedApps = NoAppsRecord
  /\ pageUrl \in ScanUrls
  /\ pageRules \in RuleSets
  /\ ScriptLoaded

NextScan == RunProtection

SpecScan == InitScan /\ [][NextScan]_vars

\* one page that is never blocked, its triggers and its clock
InitPage ==
  /\ WorkerStarted
  /\ persistedRules = NoRulesRecord
  /\ persistedApps = NoAppsRecord
  /\ pageUrl \in {EvilUrl, MsLoginUrl}
  /\ pageRules = QuietRules
  /\ ScriptLoaded

NextPage ==
  \/ RunProtection
  \/ ClockTicks

SpecPage == InitPage /\ [][NextPage]_vars


\* the step in which the running URL evaluation of tab t finishes after its read
EvaluationEnds(t) == run[t].pc = "sessionGet" /\ run'[t].pc = "idle"

\* C1: verdict monotonicity. A urlComplete evaluation that runs after phishy,
\* rogue-app or ms-login-unknown was stored (its read finds that verdict)
\* leaves the stored record as it is: it never reverts it to trusted or
\* not-evaluated.
C1_VerdictMonotonic ==
  [][\A t \in Tabs :
       (EvaluationEnds(t) /\ run[t].existing \in Sticky) => session'[t] = session[t]]_vars

\* C1 witness: an evaluation for the URL of the stored record found a sticky
\* verdict, kept it, and the verdict is still stored.
C1_Witness ==
  \E t \in Tabs :
    /\ lastDecision[t] = "keeping"
    /\ session[t].verdict \in Sticky
    /\ session[t].url = tabUrl[t]
    /\ run[t].pc = "idle"

\* C2: a urlComplete evaluation never overwrites a stored phishy verdict
\* (which only FLAG_PHISHY writes), whenever FLAG_PHISHY was handled before
\* the evaluation finished.
C2_PhishyNotOverwritten ==
  [][\A t \in Tabs :
       (EvaluationEnds(t) /\ session[t].verdict = "phishy")
         => session'[t].verdict = "phishy"]_vars

\* C3: within one page load a stored phishy or rogue-app verdict is replaced
\* by nothing but safe (stated leniently: one of the two may replace the other).
C3_TerminalExceptSafe ==
  [][\A t \in Tabs :
       (/\ session[t].verdict \in {"phishy", "rogue-app"}
        /\ currentLoad[t]
        /\ tabUrl'[t] = tabUrl[t])
         => session'[t].verdict \in {"phishy", "rogue-app", "safe"}]_vars

\* C4 (its second clause): a stored trusted verdict is never replaced by the
\* less specific not-evaluated. Stated for the plainest case: the URL
\* evaluation read trusted, trusted is still stored, and the evaluation is for
\* the URL of the stored record in the page load that stored it.
C4_TrustedNotDowngraded ==
  [][\A t \in Tabs :
       (/\ EvaluationEnds(t)
        /\ run[t].existing = "trusted"
        /\ session[t].verdict = "trusted"
        /\ currentLoad[t]
        /\ session[t].url = tabUrl[t]
        /\ Head(chain[t]).url = session[t].url)
         => session'[t].verdict # "not-evaluated"]_vars

\* C5: once a tab is closed and onRemoved has run, nothing of the tab is
\* retrievable: no verdict record, debounce timer, queue entry or header entry.
C5_TabCleanup ==
  \A t \in Tabs :
    tabUrl[t] = Closed =>
      /\ session[t] = NoRecord
      /\ tabDebounce[t] = NoTimer
      /\ t \notin tabQueues
      /\ t \notin DOMAIN tabHeaders


C7_SingleInitialization == Cardinality(running) <= 1

\* C8: the retry survives a restart.  A restart of the worker keeps a
\* pending retry alarm, registers the alarm listener before and whatever
\* the outcome of initialization, and has an initialization in flight;
\* when the alarm fires its listener runs, clears _retryScheduled and
\* leaves the coordinator initialized or initializing; the alarm created
\* by the k-th failure in a row is due 1000 ms times k later.
C8_RetrySurvivesRestart ==
  /\ [][(epoch' # epoch /\ alarm.pending)
          => (alarm' = alarm /\ coreListeners' /\ running' # {})]_vars
  /\ [][(alarm.pending /\ ~alarm'.pending)
          => (coreListeners /\ ~retryScheduled'
              /\ (isInitialized' \/ running' # {}))]_vars
  /\ [][alarmsThisRun' > alarmsThisRun
          => alarm' = [pending |-> TRUE, delay |-> 1000 * failsInRow']]_vars

\* the worker was restarted while the alarm of a second failure was
\* pending; the listener is there and initialization is in flight, not done
C8_Witness ==
  /\ epoch = 1
  /\ alarm.pending
  /\ alarm.delay = 2000
  /\ failsInRow = 0
  /\ coreListeners
  /\ ~isInitialized
  /\ ~listenersReady
  /\ running = {1}


\* C9: a failed refresh leaves the cache alone.  When a refresh whose
\* remote fetch failed ends, the in-memory rules, lastUpdate and the
\* persisted record are what they were, and a caller of
\* updateDetectionRules is given the error.
C9_FailedRefreshLeavesState ==
  [][\A f \in BagToSet(fetcher) :
       (f.remoteFailed /\ fetcher' = fetcher (-) SetToBag({f}))
         => /\ UNCHANGED <<cachedRules, rulesLastUpdate, persistedRules>>
            /\ (f.caller = "update" => updateResult' = "error")]_vars

\* C10, amended: as long as every remote fetch has failed, what
\* getDetectionRules returns is never null; it is the bundled rule set
\* when initialize() found the persisted record absent or expired, and the
\* rule set of that record or the bundled one when it found the record
\* fresh.
C10_FallbackNonNull ==
  (~remoteEverOk /\ getResult # NotAsked)
    => /\ getResult # NoRules
       /\ (bootCache \in {"absent", "expired"} => getResult = Bundled)
       /\ (bootCache = "fresh" => getResult \in {RemoteV1, Bundled})

\* the persisted record had expired, the remote fetch failed, and
\* getDetectionRules returned the bundled rule set
C10_Witness ==
  /\ ~remoteEverOk
  /\ bootCache = "expired"
  /\ persistedRules.rules = Bundled
  /\ getResult = Bundled

\* C10 as stated: as long as every remote fetch has failed, what
\* getDetectionRules returns is the bundled rule set, whatever
\* the persisted record was.
C10_AlwaysBundled == (~remoteEverOk /\ getResult # NotAsked) => getResult = Bundled

\* C11: a persisted record past its age limit is still loaded.  When
\* initialize() of the rules manager finds a record in storage, whatever
\* its age, the rules in memory afterwards are the rules of that record.
C11_StaleRecordStillLoaded ==
  [][(~rulesInitialized /\ rulesInitialized' /\ persistedRules # NoRulesRecord)
       => cachedRules' = persistedRules.rules]_vars

\* C12: lastUpdate never decreases.  In every step of the registry, the
\* lastUpdate in memory and the lastUpdate of the persisted record are at
\* least what they were.
C12_LastUpdateMonotonic ==
  [][/\ rogueLastUpdate' >= rogueLastUpdate
     /\ persistedApps'.lastUpdate >= persistedApps.lastUpdate]_vars

\* C13: every refresh ends within its timeout.  No fetch of the remote
\* detection rules is still waiting for the server ten seconds after it
\* was issued.
C13_FetchBounded == \A f \in BagToSet(fetcher) : ~f.overdue

\* C14: initialize() of a cache does not wait for the network.  For the
\* rules and for the registry alike: when initialize() ends and a refresh
\* is due, the manager is marked initialized while the refresh it started
\* still awaits the remote server; initialize() can always end, whatever
\* the refreshes in flight are doing; and no outcome of a refresh takes
\* the mark back.
C14_InitializeDoesNotWait ==
  /\ [][(~rulesInitialized /\ rulesInitialized'
           /\ now - rulesLastUpdate' > updateInterval)
          => StartedFetch("update") \in BagToSet(fetcher')]_vars
  /\ [][(~rogueInitialized /\ rogueInitialized'
           /\ now - rogueLastUpdate' > rogueUpdateInterval)
          => rogueFetching' = rogueFetching + 1]_vars
  /\ [](~rulesInitialized => ENABLED RulesInitialize)
  /\ [](rogueLoad.pending => ENABLED RogueInitializeEnds)
  /\ [][rulesInitialized => rulesInitialized']_vars
  /\ [][rogueInitialized => rogueInitialized']_vars

\* both managers are initialized, the refresh of the registry has failed
\* and the refresh of the rules has had no answer from the server
C14_Witness ==
  /\ rulesInitialized
  /\ rogueInitialized
  /\ rogueResult = "error"
  /\ \E f \in BagToSet(fetcher) : f.caller = "update" /\ f.pc = "remote" /\ f.overdue

\* the thresholds of the boundary example
BoundaryThresholds ==
  [minimum_primary_elements |-> 2, minimum_total_weight |-> 5,
   minimum_elements_overall |-> 3]

\* C15: on an untrusted origin a scan reports isPhishing exactly when the
\* number of matched primary elements, the total weight and the number of
\* matched elements each reach their threshold, the threshold itself
\* included; with thresholds {2,5,3}, two primaries of weight 5 together and
\* one secondary give true, and one matched element less gives false
C15_InclusiveThresholds ==
  (lastDetectionResult.produced /\ pageUrl.origin # MsOrigin) =>
    LET r == lastDetectionResult
        t == pageRules.detection_thresholds
    IN /\ r.isPhishing <=>
            /\ r.primaryElementsCount >= t.minimum_primary_elements
            /\ r.totalWeight >= t.minimum_total_weight
            /\ r.primaryElementsCount + r.secondaryElementsCount
                 >= t.minimum_elements_overall
       /\ t = BoundaryThresholds =>
            /\ (r.primaryElementsCount = 2 /\ r.totalWeight >= 5
                  /\ r.secondaryElementsCount = 1) => r.isPhishing
            /\ r.primaryElementsCount + r.secondaryElementsCount = 2
                  => ~r.isPhishing
       /\ blocked = r.isPhishing

C15_Witness ==
  /\ pageUrl = EvilUrl
  /\ pageRules.detection_thresholds = BoundaryThresholds
  /\ pageRules.primary_elements = <<LoginForm, MsLogo>>
  /\ pageRules.secondary_elements = <<Footer>>
  /\ lastDetectionResult.produced
  /\ lastDetectionResult.isPhishing
  /\ lastDetectionResult.primaryElementsCount = 2
  /\ lastDetectionResult.secondaryElementsCount = 1
  /\ blocked

\* the matched signals of the page pass the candidate test
CandidatePage ==
  LET p == ScanList(pageRules.primary_elements)
      s == ScanList(pageRules.secondary_elements)
      t == pageRules.detection_thresholds
  IN /\ ~p.threw /\ ~s.threw
     /\ p.count >= t.minimum_primary_elements
     /\ p.weight + s.weight >= t.minimum_total_weight
     /\ p.count + s.count >= t.minimum_elements_overall

\* a trusted login pattern matches the origin of the page
TrustedOrigin ==
  \E i \in 1..Len(TrustedLoginPatterns) :
    /\ TrustedLoginPatterns[i].valid
    /\ pageUrl.origin \in TrustedLoginPatterns[i].matches

\* C16: for signals that pass the candidate test the scan yields isPhishing
\* false when a trusted login pattern matches the origin of the page and
\* true when none does; two addresses of one origin give the same result,
\* and the page is blocked only in the second case
C16_TrustedOriginSuppresses ==
  LET a == analyzePageForPhishing(pageRules, pageUrl)
  IN /\ CandidatePage => (a.result.isPhishing <=> ~TrustedOrigin)
     /\ \A u \in ScanUrls :
          u.origin = pageUrl.origin => analyzePageForPhishing(pageRules, u) = a
     /\ (CandidatePage /\ scanCount > 0) => (blocked <=> ~TrustedOrigin)

C16_Witness ==
  /\ pageUrl = MsOtherUrl
  /\ CandidatePage
  /\ scanCount = 1
  /\ ~blocked
  /\ ~analyzePageForPhishing(pageRules, pageUrl).result.isPhishing
  /\ analyzePageForPhishing(pageRules, EvilQueryUrl).result.isPhishing

C18_InvalidPatternSkipped ==
  (scanCount > 0 /\ ~TrustedOrigin) =>
    /\ ~scanError
    /\ lastDetectionResult.produced
    /\ \A i \in 1..Len(pageRules.primary_elements) :
         ElementMatches(pageRules.primary_elements[i]) =>
           \E k \in 1..Len(lastDetectionResult.detectedElements) :
             lastDetectionResult.detectedElements[k] = pageRules.primary_elements[i].id

\* the ids reported by the last scan
DetectedIds ==
  {lastDetectionResult.detectedElements[k] :
     k \in 1..Len(lastDetectionResult.detectedElements)}

\* C19: an element id contributes once to a scan: no id is reported twice in
\* detectedElements, and the two counts together are the number of distinct
\* ids reported
C19_IdCountedOnce ==
  lastDetectionResult.produced =>
    /\ Cardinality(DetectedIds) = Len(lastDetectionResult.detectedElements)
    /\ lastDetectionResult.primaryElementsCount
         + lastDetectionResult.secondaryElementsCount = Cardinality(DetectedIds)

\* C20: whatever the triggers and the times at which they come, at most
\* MAX_SCANS scans are started on a page, and two scans started one after
\* the other are at least SCAN_COOLDOWN milliseconds apart
C20_ScanRateLimited ==
  /\ Len(scanStarts) <= MAX_SCANS
  /\ scanCount = Len(scanStarts)
  /\ \A i \in 1..(Len(scanStarts) - 1) :
       scanStarts[i + 1] - scanStarts[i] >= SCAN_COOLDOWN

C20_Witness ==
  /\ Len(scanStarts) = MAX_SCANS
  /\ scanStarts[2] - scanStarts[1] = SCAN_COOLDOWN
  /\ pageClock - lastScanTime >= SCAN_COOLDOWN
  /\ lastTrigger = "refused"

\* C21: when a scan has found the page to be phishing, the worker was told
\* so: the page has sent FLAG_PHISHY, or the verdict stored for its tab is
\* phishy
C21_ScanInformsCoordinator ==
  lastDetectionResult.isPhishing =>
    \/ "FLAG_PHISHY" \in sent
    \/ \A t \in Tabs : session[t].verdict = "phishy"

\* C22: a urlComplete evaluation for a URL other than the one of the stored
\* record decides to replace the record by the verdict of the new URL; the
\* verdict of the page left behind is not kept.  Stated for an evaluation
\* of the tab's current URL whose read is still what is stored.
C22_NavigationResetsVerdict ==
  [][\A t \in Tabs :
       (/\ EvaluationEnds(t)
        /\ run[t].existing = session[t].verdict
        /\ session[t].verdict # Undefined
        /\ Head(chain[t]).url = tabUrl[t]
        /\ session[t].url # tabUrl[t])
         => lastDecision'[t] = "updating"]_vars

\* C25: a ping is answered in every state of the lifecycle and starts no
\* initialization, and the answer carries fallbackMode true only when the
\* retries are exhausted and the coordinator has entered fallback mode; in
\* particular not while the first initialization is in flight or a retry
\* is pending
C25_PingReportsFallback ==
  /\ [](ENABLED Ping)
  /\ [][(lastPing' # lastPing /\ lastPing'.answered) =>
          /\ running' = running
          /\ initializationPromise' = initializationPromise
          /\ lastPing'.fallbackMode =>
               /\ ~isInitialized
               /\ running = {}
               /\ ~retryScheduled
               /\ initializationRetries >= maxInitializationRetries]_vars

C23_CheckRogueApp ==
  [][\A t \in Tabs, c \in ClientIds, ok \in BOOLEAN :
       CheckRogueApp(t, c, ok) =>
         IF rogueInitialized /\ c \in rogueApps
         THEN /\ ok => session'[t] = [verdict |-> "rogue-app", url |-> tabUrl[t]]
              /\ lastEvent' = "rogue-app-detected"
              /\ badge'[t].text = BadgeMap("rogue-app").text
              /\ lastReply'.data = "rogue"
         ELSE /\ session' = session
              /\ lastEvent' = lastEvent
              /\ badge' = badge
              /\ lastReply'.data # "rogue"]_vars

C23_Witness ==
  \E t \in Tabs :
    /\ lastReply = Reply("CHECK_ROGUE_APP", TRUE, "rogue")
    /\ session[t] = [verdict |-> "rogue-app", url |-> tabUrl[t]]
    /\ lastEvent = "rogue-app-detected"
    /\ lastDecision[t] = "updating"

\* C24: once the handlers of a tab have finished (no timer is pending, no
\* task is queued or running), its badge is the one that setBadge maps from
\* the stored verdict: the same text, and the same colour when there is a text
C24_BadgeShowsVerdict ==
  \A t \in Tabs :
    (/\ chain[t] = <<>>
     /\ run[t].pc = "idle"
     /\ tabDebounce[t] \in {NoTimer, FiredTimer}) =>
      /\ badge[t].text = BadgeMap(session[t].verdict).text
      /\ badge[t].text # "" => badge[t].color = BadgeMap(session[t].verdict).color

\* C30: when the store rejects the write of a verdict, the handler goes on
\* as after a write that was taken: a message is answered with success, the
\* URL evaluation ends as an update; the error counter and the lifecycle
\* are untouched and the stored record is what it was
C30_WriteBestEffort ==
  [][\A t \in Tabs :
       (\/ FlagPhishy(t, FALSE)
        \/ FlagTrustedByReferrer(t, FALSE)
        \/ FlagMsLoginOnUnknownDomain(t, FALSE)
        \/ FlagRogueApp(t, FALSE)
        \/ UpdateVerdictToSafe(t, FALSE)
        \/ \E c \in ClientIds : checkClientId(c) = "rogue" /\ CheckRogueApp(t, c, FALSE)
        \/ HTUWrite(t, FALSE)) =>
         /\ session' = session
         /\ errorCount' = errorCount
         /\ isInitialized' = isInitialized
         /\ running' = running
         /\ HTUWrite(t, FALSE) => lastDecision'[t] = "updating"
         /\ ~HTUWrite(t, FALSE) => lastReply'.success]_vars

C30_Witness ==
  \E t \in Tabs :
    /\ session[t] = NoRecord
    /\ lastReply = Reply("FLAG_PHISHY", TRUE, "null")
    /\ badge[t].text = "!"
    /\ errorCount = 0

\* ------------------------------------------------------------------------
\* The header cache (checked under SpecHeaders)
\* ------------------------------------------------------------------------

\* C26: after any sequence of header-received events, tab removals and
\* header requests the header cache holds at most 100 entries; a step that
\* stores an entry (a tab id is new in the cache or has a new ts) drops at
\* most one entry, does so only when it found 100 entries, and the entry it
\* drops has the smallest ts of the cache.
C26_HeaderCacheBound ==
  /\ [](Cardinality(DOMAIN tabHeaders) <= 100)
  /\ [][LET Evicted == (DOMAIN tabHeaders) \ (DOMAIN tabHeaders')
            Inserted == \E t \in DOMAIN tabHeaders' :
                          t \notin DOMAIN tabHeaders \/ tabHeaders'[t] # tabHeaders[t]
        IN Inserted =>
             /\ Cardinality(Evicted) <= 1
             /\ \A o \in Evicted :
                  /\ Cardinality(DOMAIN tabHeaders) >= 100
                  /\ \A x \in DOMAIN tabHeaders : tabHeaders[o] <= tabHeaders[x]]_vars

\* a response of tab 101 found the cache full and took the place of tab 1,
\* whose entry was the oldest and whose tab is still open
C26_Witness ==
  /\ headerEvents = 1
  /\ Cardinality(DOMAIN tabHeaders) = 100
  /\ 101 \in DOMAIN tabHeaders
  /\ 1 \notin DOMAIN tabHeaders
  /\ 2 \in DOMAIN tabHeaders
  /\ tabUrl[1] # Closed

\* ------------------------------------------------------------------------
\* The batched log writes (checked under SpecFlush and SpecFlushFair)
\* ------------------------------------------------------------------------

\* C27: every access-log entry and security event accepted into the
\* in-memory batch is eventually in the list of its type in persistent
\* storage, unless that list is full of entries later than it (the window
\* has moved past it).
C27_AcceptedEntryPersisted ==
  \A e \in {Entry(accessLogsWindow + k, type, length) :
              k \in 1..MaxEntries, type \in {"url_access", "security_event"},
              length \in {ShortEntry, LongEntry}} :
    (\/ \E i \in DOMAIN pendingLocal.accessLogs : pendingLocal.accessLogs[i] = e
     \/ \E i \in DOMAIN pendingLocal.securityEvents : pendingLocal.securityEvents[i] = e)
    ~> (LET list == IF e.type = "url_access" THEN storedLogs.accessLogs
                    ELSE storedLogs.securityEvents
            window == IF e.type = "url_access" THEN accessLogsWindow
                      ELSE securityEventsWindow
        IN \/ \E i \in DOMAIN list : list[i] = e
           \/ Len(list) = window /\ list[1].n > e.n)

\* C28: the persisted accessLogs list never has more than 1000 entries and
\* securityEvents never more than 500, both in the order of acceptance, and
\* every payload a step hands to chrome.storage.local.set is, list by list,
\* the end of the stored list followed by the batch.
C28_BoundedLogWindows ==
  /\ [](LET InOrder(s) == \A i \in 1..(Len(s) - 1) : s[i].n < s[i + 1].n
        IN /\ Len(storedLogs.accessLogs) <= 1000
           /\ Len(storedLogs.securityEvents) <= 500
           /\ InOrder(storedLogs.accessLogs)
           /\ InOrder(storedLogs.securityEvents))
  /\ [][LET IsSuffix(s, all) ==
              /\ Len(s) <= Len(all)
              /\ s = SubSeq(all, Len(all) - Len(s) + 1, Len(all))
            NewPayloads ==
              {p \in BagToSet(flushWrites') :
                 CopiesIn(p, flushWrites') > CopiesIn(p, flushWrites)}
        IN \A p \in NewPayloads :
             /\ Len(p.accessLogs) <= 1000
             /\ Len(p.securityEvents) <= 500
             /\ IsSuffix(p.accessLogs, storedLogs.accessLogs \o pendingLocal.accessLogs)
             /\ IsSuffix(p.securityEvents,
                         storedLogs.securityEvents \o pendingLocal.securityEvents)]_vars

\* a flush has stored two new access entries at the end of a list of 1000
\* and dropped the oldest stored entry
C28_Witness ==
  /\ Len(storedLogs.accessLogs) = 1000
  /\ storedLogs.accessLogs[1000].n = 1002
  /\ storedLogs.accessLogs[999].n = 1001
  /\ storedLogs.accessLogs[1].n = 2

\* ------------------------------------------------------------------------
\* The URL evaluation, the per-tab queue and the debounce
\* ------------------------------------------------------------------------

\* C31: the application rule of the URL evaluation.  With the verdict the
\* evaluation found stored, the URL-based verdict is written (with the URL
\* of the notification) if and only if there was none, or it was
\* not-evaluated, or it was trusted and the URL-based verdict is not; in
\* every other case the stored record is left as it is.  A write that the
\* store rejects leaves the record as well.
C31_ApplicationRule ==
  [][\A t \in Tabs : \A ok \in BOOLEAN :
       HTUWrite(t, ok) =>
         LET existing == run[t].existing
             url == Head(chain[t]).url
             applies == \/ existing = Undefined
                        \/ existing = "not-evaluated"
                        \/ existing = "trusted" /\ verdictForUrl(url) # "trusted"
         IN /\ applies <=> lastDecision'[t] = "updating"
            /\ (applies /\ ok) =>
                 session'[t] = [verdict |-> verdictForUrl(url), url |-> url]
            /\ (~applies \/ ~ok) => session'[t] = session[t]
            /\ existing \in {"trusted-extra", "phishy", "ms-login-unknown",
                             "rogue-app", "safe"} => ~applies]_vars

\* an evaluation found safe stored for the tab and kept it: the badge it
\* set is the one of safe, which has no text
C31_Witness ==
  \E t \in Tabs :
    /\ lastDecision[t] = "keeping"
    /\ session[t].verdict = "safe"
    /\ run[t].pc = "idle"
    /\ chain[t] = <<>>

\* C33: within one burst the debounce keeps the navigation's evaluation: a
\* pending timer whose notification carried status complete for the tab's
\* URL is replaced only by a notification that carries complete as well, so
\* that the one task the burst enqueues evaluates the URL.
C33_BurstKeepsComplete ==
  [][\A t \in Tabs :
       (/\ tabDebounce[t].status = "complete"
        /\ tabDebounce'[t].url = tabDebounce[t].url)
         => tabDebounce'[t].status = "complete"]_vars

\* C40: with a minimum total weight above 0, a scan that reports phishing
\* reports it with confidence exactly 1 and with severity high; no result
\* carries severity medium.
C40_PhishingIsHigh ==
  LET r == lastDetectionResult
  IN /\ (/\ r.produced
         /\ r.isPhishing
         /\ pageRules.detection_thresholds.minimum_total_weight > 0)
          => /\ r.confidence.num = r.confidence.den
             /\ r.severity = "high"
     /\ r.severity # "medium"

\* a page on an untrusted origin whose total weight is exactly the minimum
\* has been reported
C40_Witness ==
  /\ lastDetectionResult.produced
  /\ lastDetectionResult.isPhishing
  /\ lastDetectionResult.totalWeight
       = pageRules.detection_thresholds.minimum_total_weight
  /\ lastDetectionResult.severity = "high"
  /\ blocked

\* C34: a successful refresh replaces the registry in one step.  While its
\* fetch is in flight the table is the old one, and the step in which the
\* fetch settles with a list leaves the complete new table: a lookup before
\* it answers from the old table, a lookup after it from the new one, and
\* none sees a table in between.
C34_AtomicReplacement ==
  [][/\ RogueForceUpdate =>
          \A id \in ClientIds \cup RemoteApps : checkClientId(id)' = checkClientId(id)
     /\ \A ok \in BOOLEAN, before \in {{}, {RogueId}} :
          RogueFetchEnds("ok", ok, before) =>
            /\ rogueApps' = RemoteApps
            /\ \A id \in ClientIds \cup RemoteApps :
                 rogueInitialized =>
                   (checkClientId(id)' = "rogue" <=> id \in RemoteApps)]_vars

\* a refresh has replaced the table of an initialized registry while a
\* second refresh is in flight
C34_Witness ==
  /\ rogueInitialized
  /\ rogueResult = "success"
  /\ rogueApps = RemoteApps
  /\ rogueFetching > 0

\* C37: while the init-retry alarm is pending (_retryScheduled is true) the
\* coordinator is not initialized and no _doInitialize sequence is in
\* flight; no step taken while the flag stays set starts a sequence; and
\* the flag is cleared only by the alarm listener (or with the worker).
C37_RetryWindow ==
  /\ [](retryScheduled => (~isInitialized /\ running = {}))
  /\ [][(retryScheduled /\ retryScheduled') => running' \subseteq running]_vars
  /\ [][(retryScheduled /\ ~retryScheduled') => (AlarmFires \/ Restart)]_vars

\* C36: fallback mode is recoverable.  Once the retries are exhausted
\* (initializationRetries has reached maxInitializationRetries), a message
\* other than ping that arrives leaves an initialization sequence in
\* flight, and a sequence that succeeds leaves the coordinator initialized
\* with the retry counter at 0 and a ping answered with fallbackMode false.
C36_FallbackRecoverable ==
  /\ [][(initializationRetries >= maxInitializationRetries /\ MessageArrives)
          => running' # {}]_vars
  /\ [][\A k \in Seqs :
          (initializationRetries >= maxInitializationRetries /\ InitSucceeds(k))
            => /\ isInitialized'
               /\ initializationRetries' = 0
               /\ ~(PingResponse.fallbackMode)']_vars

\* C38: the event listeners are registered at most once per coordinator
\* instance: however often _doInitialize succeeds, chrome.tabs.onUpdated
\* holds one listener once the listeners are set up and none before, so a
\* tab update is delivered to one handler.
C38_ListenersOnce ==
  /\ eventListeners.registered <= 1
  /\ listenersReady <=> eventListeners.registered = 1
  /\ isInitialized => eventListeners.registered = 1

\* _doInitialize has succeeded a second time in the same worker, after an
\* error-triggered reinitialization
C38_Witness ==
  /\ eventListeners.calls = 2
  /\ eventListeners.registered = 1
  /\ isInitialized
  /\ running = {}

\* C35: every request message receives exactly one response: whatever
\* message was handled last, its sender was answered once, also when the
\* message was a FLAG_PHISHY or FLAG_TRUSTED_BY_REFERRER of a sender
\* without a tab or had an unknown type.
C35_ExactlyOneResponse ==
  lastReply # NoReply => lastReply.responses = 1

\* C39: a notification whose URL is not the tab's current URL when its
\* handleTabUpdate runs, or whose tab is closed by then, is dropped: the
\* stored verdict, the badge and the injected content script stay as they
\* were and no evaluation is started.
C39_StaleDropped ==
  [][\A t \in Tabs :
       (HTUStart(t) /\ (tabUrl[t] = Closed \/ tabUrl[t] # Head(chain[t]).url))
         => /\ session' = session
            /\ badge' = badge
            /\ injected' = injected
            /\ lastEvent' = lastEvent
            /\ run'[t].pc = "idle"
            /\ chain'[t] = Tail(chain[t])]_vars

\* a notification was handed to handleTabUpdate after the tab had moved on
\* to another page: the timer has fired and the task is gone, and the
\* initialized worker has evaluated nothing, injected nothing and left
\* record and badge as they were
C39_Witness ==
  \E t \in Tabs :
    /\ isInitialized
    /\ tabUrl[t] # Closed
    /\ tabDebounce[t] = FiredTimer
    /\ chain[t] = <<>>
    /\ run[t].pc = "idle"
    /\ lastDecision[t] = "none"
    /\ injected[t] = Closed
    /\ session[t] = NoRecord
    /\ badge[t] = NoBadge

\* C32: the tasks enqueued for one tab id run strictly one at a time and in
\* enqueue order: a task that has been called is preceded only by tasks
\* that have run to their end, fulfilled or rejected; and a task whose
\* predecessors have all ended can be called, also after a rejection.
\* Tasks of different tab ids are not ordered.
C32_SerialPerTab ==
  \A q \in QueueTabs :
    /\ \A i, j \in 1..Len(tasks[q]) :
         (i < j /\ tasks[q][j].state # "waiting") => tasks[q][i].state = "done"
    /\ Cardinality({i \in 1..Len(tasks[q]) : tasks[q][i].state = "running"}) <= 1
    /\ \A i \in 1..Len(tasks[q]) :
         (/\ tasks[q][i].state = "waiting"
          /\ \A k \in 1..(i - 1) : tasks[q][k].state = "done")
           => ENABLED TaskStarts(q, i)

\* the first task of tab 1 has rejected and the second is running, while a
\* task of tab 2 that was enqueued before it is still running
C32_Witness ==
  /\ Len(tasks[1]) = 3
  /\ tasks[1][1] = [state |-> "done", outcome |-> "rejected"]
  /\ tasks[1][2].state = "running"
  /\ tasks[1][3].state = "waiting"
  /\ Len(tasks[2]) >= 1
  /\ tasks[2][1].state = "running"

====
